---------------------------- MODULE Spec2Model ----------------------------
(***************************************************************************)
(* A model of browser.py: the URL class (locator parsing, the keep-alive   *)
(* socket cache, the HTTP/1.1 request with redirect following, and the     *)
(* teardown of the cache).                                                 *)
(*                                                                         *)
(* Python strings are TLA+ strings (TLC treats them as sequences: Len,     *)
(* SubSeq and \o apply).  Bytes are integers 0..255.  Text decoded from    *)
(* bytes is a sequence of code points.                                     *)
(***************************************************************************)
EXTENDS Integers, Sequences, FiniteSets, TLC

(***************************************************************************)
(* Python string primitives used by browser.py                             *)
(***************************************************************************)

\* s[i] (1-based), a one-character string
CharAt(s, i) == SubSeq(s, i, i)

\* the least element of a non-empty set of integers
MinOf(S) == CHOOSE m \in S : \A n \in S : m <= n

\* the greatest element of a non-empty set of integers
MaxOf(S) == CHOOSE m \in S : \A n \in S : m >= n

\* the positions at which sub occurs in s
Occurrences(s, sub) ==
  { i \in 1..(Len(s) - Len(sub) + 1) : SubSeq(s, i, i + Len(sub) - 1) = sub }

\* "sub in s"
Contains(s, sub) == Occurrences(s, sub) /= {}

\* s.startswith(p)
StartsWith(s, p) == Len(s) >= Len(p) /\ SubSeq(s, 1, Len(p)) = p

\* the characters str.strip() and str.lstrip() remove
IsSpace(c) == c \in {" ", "\t", "\n", "\r", "\f"}

\* s.lstrip()
LStrip(s) ==
  LET keep == { i \in 1..Len(s) : ~IsSpace(CharAt(s, i)) }
  IN  IF keep = {} THEN "" ELSE SubSeq(s, MinOf(keep), Len(s))

\* s.strip()
Strip(s) ==
  LET keep == { i \in 1..Len(s) : ~IsSpace(CharAt(s, i)) }
  IN  IF keep = {} THEN "" ELSE SubSeq(s, MinOf(keep), MaxOf(keep))

\* s.split(sep, 1): <<before, after>> at the first sep, <<s>> when there is none
SplitFirst(s, sep) ==
  IF Contains(s, sep)
    THEN LET i == MinOf(Occurrences(s, sep))
         IN  << SubSeq(s, 1, i - 1), SubSeq(s, i + Len(sep), Len(s)) >>
    ELSE << s >>

\* s.rsplit(sep, 1)[0]: what precedes the last sep, s itself when there is none
RSplitHead(s, sep) ==
  IF Contains(s, sep)
    THEN SubSeq(s, 1, MaxOf(Occurrences(s, sep)) - 1)
    ELSE s

\* the value of a decimal digit, -1 for any other character
DigitVal(c) ==
  CASE c = "0" -> 0 [] c = "1" -> 1 [] c = "2" -> 2 [] c = "3" -> 3
    [] c = "4" -> 4 [] c = "5" -> 5 [] c = "6" -> 6 [] c = "7" -> 7
    [] c = "8" -> 8 [] c = "9" -> 9 [] OTHER -> -1

\* the number a string of digits denotes (val[i]: that of its first i digits)
DigitsVal(d) ==
  LET val[i \in 0..Len(d)] ==
        IF i = 0 THEN 0 ELSE 10 * val[i - 1] + DigitVal(CharAt(d, i))
  IN  val[Len(d)]

\* int(s): <<TRUE, n>>, or <<FALSE, 0>> where Python raises ValueError.
\* Surrounding whitespace and one sign are accepted, as int() accepts them.
ParseInt(s) ==
  LET t    == Strip(s)
      sgn  == IF Len(t) > 0 /\ CharAt(t, 1) \in {"+", "-"} THEN CharAt(t, 1) ELSE ""
      d    == SubSeq(t, Len(sgn) + 1, Len(t))
      good == Len(d) > 0 /\ \A i \in 1..Len(d) : DigitVal(CharAt(d, i)) >= 0
  IN  IF good THEN << TRUE, IF sgn = "-" THEN 0 - DigitsVal(d) ELSE DigitsVal(d) >>
      ELSE << FALSE, 0 >>

\* str.lower() / str.casefold() on the ASCII letters of header names
LowerChar(c) ==
  CASE c = "A" -> "a" [] c = "B" -> "b" [] c = "C" -> "c" [] c = "D" -> "d"
    [] c = "E" -> "e" [] c = "F" -> "f" [] c = "G" -> "g" [] c = "H" -> "h"
    [] c = "I" -> "i" [] c = "J" -> "j" [] c = "K" -> "k" [] c = "L" -> "l"
    [] c = "M" -> "m" [] c = "N" -> "n" [] c = "O" -> "o" [] c = "P" -> "p"
    [] c = "Q" -> "q" [] c = "R" -> "r" [] c = "S" -> "s" [] c = "T" -> "t"
    [] c = "U" -> "u" [] c = "V" -> "v" [] c = "W" -> "w" [] c = "X" -> "x"
    [] c = "Y" -> "y" [] c = "Z" -> "z" [] OTHER -> c

\* the header name stored as received, without casefold()
Casefold_AsReceived(s) == s

\* header.casefold() (low[i]: the first i characters, folded)
Casefold(s) ==
  LET low[i \in 0..Len(s)] ==
        IF i = 0 THEN "" ELSE low[i - 1] \o LowerChar(CharAt(s, i))
  IN  low[Len(s)]

(***************************************************************************)
(* os.path.normpath (POSIX flavour), called by URL.__init__                *)
(***************************************************************************)

\* s.split(sep) for a one-character sep: every piece, empty pieces included
\* (cut[k]: the position of the k-th sep, 0 before the first, Len(s)+1 after the last)
SplitAll(s, sep) ==
  LET at  == Occurrences(s, sep)
      n   == Cardinality(at)
      cut == [ k \in 0..(n + 1) |->
                 IF k = 0 THEN 0
                 ELSE IF k = n + 1 THEN Len(s) + 1
                 ELSE CHOOSE p \in at : Cardinality({ q \in at : q <= p }) = k ]
  IN  [ k \in 1..(n + 1) |-> SubSeq(s, cut[k - 1] + 1, cut[k] - 1) ]

\* sep.join(parts) (joined[i]: the first i parts, joined)
Join(parts, sep) ==
  LET joined[i \in 0..Len(parts)] ==
        IF i = 0 THEN ""
        ELSE IF i = 1 THEN parts[1]
        ELSE joined[i - 1] \o sep \o parts[i]
  IN  joined[Len(parts)]

\* the loop of normpath over the components: "" and "." are dropped, ".." pops
\* the previous component unless there is none to pop
\* (acc[i]: new_comps after the first i components)
NormComps(comps, initial_slashes) ==
  LET acc[i \in 0..Len(comps)] ==
        IF i = 0 THEN << >>
        ELSE LET comp == comps[i]
                 prev == acc[i - 1]
             IN  IF comp \in {"", "."} THEN prev
                 ELSE IF comp /= ".."
                         \/ (initial_slashes = 0 /\ Len(prev) = 0)
                         \/ (Len(prev) > 0 /\ prev[Len(prev)] = "..")
                   THEN Append(prev, comp)
                 ELSE IF Len(prev) > 0 THEN SubSeq(prev, 1, Len(prev) - 1)
                 ELSE prev
  IN  acc[Len(comps)]

\* os.path.normpath(path)
normpath(path) ==
  IF path = "" THEN "."
  ELSE LET initial_slashes ==
             IF ~StartsWith(path, "/") THEN 0
             ELSE IF StartsWith(path, "//") /\ ~StartsWith(path, "///") THEN 2
             ELSE 1
           body == Join(NormComps(SplitAll(path, "/"), initial_slashes), "/")
           out  == (IF initial_slashes = 2 THEN "//"
                    ELSE IF initial_slashes = 1 THEN "/" ELSE "") \o body
       IN  IF out = "" THEN "." ELSE out

(***************************************************************************)
(* URL.__init__: locator parsing                                           *)
(***************************************************************************)

\* The instance attributes that only some branches of __init__ assign.
OptionalAttrs == {"file_path", "data_meta", "data_payload", "host", "port", "path"}

\* A URL object right after the three flag assignments of lines 22-24.  "has" is
\* the set of optional attributes that exist on the object, "none" those among
\* them whose value is None.
NewURL ==
  [ is_file |-> FALSE, is_data |-> FALSE, is_view_source |-> FALSE,
    scheme |-> "", host |-> "", port |-> 0, path |-> "",
    file_path |-> "", data_meta |-> "", data_payload |-> "",
    has |-> {}, none |-> {} ]

\* The constructor raised: no object reaches the caller.
Raise(e) == [ raised |-> e ]

\* whether a constructor or a call ended by raising
Raised(u) == "raised" \in DOMAIN u

\* getattr(u, a, None): << v >> for a value, << >> for None or a missing attribute
Getattr(u, a) == IF a \in (u.has \ u.none) THEN << u[a] >> ELSE << >>

\* the literal default document of line 96
DefaultFilePath == normpath("C:/Users/matas/PersonalProjects/Browser/index.html")

\* lines 47-65: a data: locator, split at the first comma
DataURL(url) ==
  LET data_rest == SubSeq(url, 6, Len(url))
      parts     == SplitFirst(data_rest, ",")
      meta      == IF Len(parts) = 2 THEN parts[1] ELSE ""
      payload   == IF Len(parts) = 2 THEN parts[2] ELSE ""
  IN  [ NewURL EXCEPT !.scheme = "data", !.is_data = TRUE,
                      !.data_meta = meta, !.data_payload = payload,
                      !.has = {"data_meta", "data_payload"} ]

\* lines 71-76: no "://" at all, the whole string is a filesystem path
BarePathURL(url) ==
  [ NewURL EXCEPT !.scheme = "file", !.is_file = TRUE,
                  !.file_path = normpath(url), !.has = {"file_path"} ]

\* lines 82-99: file://<rest>
FileURL(rest) ==
  LET p1 == IF StartsWith(rest, "/") /\ Len(rest) > 2 /\ CharAt(rest, 3) = ":"
              THEN SubSeq(rest, 2, Len(rest)) ELSE rest
      p2 == normpath(p1)
      p3 == IF Strip(p2) = "" THEN DefaultFilePath ELSE p2
  IN  [ NewURL EXCEPT !.scheme = "file", !.is_file = TRUE,
                      !.file_path = p3, !.has = {"file_path"} ]

\* HttpURL without the assert of line 103: any scheme token is accepted, and a
\* scheme other than http and https gets no default port
HttpURL_NoAssert(scheme, rest) ==
  LET url   == IF ~Contains(rest, "/") THEN rest \o "/" ELSE rest
      hp    == SplitFirst(url, "/")
      hs    == SplitFirst(hp[1], ":")
      known == scheme \in {"http", "https"}
      port  == IF Len(hs) = 2 THEN ParseInt(hs[2])
               ELSE << TRUE, IF scheme = "http" THEN 80
                             ELSE IF scheme = "https" THEN 443 ELSE 0 >>
  IN  IF ~port[1] THEN Raise("ValueError")
      ELSE [ NewURL EXCEPT !.scheme = scheme, !.host = hs[1],
                           !.port = port[2], !.path = "/" \o hp[2],
                           !.has = IF known \/ Len(hs) = 2
                                     THEN {"host", "port", "path"}
                                     ELSE {"host", "path"} ]

\* HttpURL without lines 108-109: the default port is 80 for https as well
HttpURL_DefaultPort80(scheme, rest) ==
  IF scheme \notin {"http", "https"} THEN Raise("AssertionError")
  ELSE LET url   == IF ~Contains(rest, "/") THEN rest \o "/" ELSE rest
           hp    == SplitFirst(url, "/")
           hs    == SplitFirst(hp[1], ":")
           port  == IF Len(hs) = 2 THEN ParseInt(hs[2]) ELSE << TRUE, 80 >>
       IN  IF ~port[1] THEN Raise("ValueError")
           ELSE [ NewURL EXCEPT !.scheme = scheme, !.host = hs[1],
                                !.port = port[2], !.path = "/" \o hp[2],
                                !.has = {"host", "port", "path"} ]

\* lines 103-121: http://<rest> and https://<rest>
HttpURL(scheme, rest) ==
  IF scheme \notin {"http", "https"} THEN Raise("AssertionError")
  ELSE LET dflt  == IF scheme = "http" THEN 80 ELSE 443
           url   == IF ~Contains(rest, "/") THEN rest \o "/" ELSE rest
           hp    == SplitFirst(url, "/")
           hs    == SplitFirst(hp[1], ":")
           port  == IF Len(hs) = 2 THEN ParseInt(hs[2]) ELSE << TRUE, dflt >>
       IN  IF ~port[1] THEN Raise("ValueError")
           ELSE [ NewURL EXCEPT !.scheme = scheme, !.host = hs[1],
                                !.port = port[2], !.path = "/" \o hp[2],
                                !.has = {"host", "port", "path"} ]

\* ViewSourceOf without line 38: the wrapper keeps is_data = False
ViewSourceOf_NoDataFlag(inner) ==
  IF Raised(inner) THEN inner
  ELSE LET copy(a) == IF Getattr(inner, a) = << >> THEN NewURL[a] ELSE inner[a]
       IN  [ NewURL EXCEPT !.is_view_source = TRUE,
                           !.scheme = inner.scheme,
                           !.is_file = inner.is_file,
                           !.file_path = copy("file_path"),
                           !.data_meta = copy("data_meta"),
                           !.data_payload = copy("data_payload"),
                           !.host = copy("host"),
                           !.port = copy("port"),
                           !.path = copy("path"),
                           !.has = OptionalAttrs,
                           !.none = { a \in OptionalAttrs : Getattr(inner, a) = << >> } ]

\* lines 28-45: the view-source wrapper copies the inner object's attributes,
\* None standing for each one the inner object lacks
ViewSourceOf(inner) ==
  IF Raised(inner) THEN inner
  ELSE LET copy(a) == IF Getattr(inner, a) = << >> THEN NewURL[a] ELSE inner[a]
       IN  [ NewURL EXCEPT !.is_view_source = TRUE,
                           !.scheme = inner.scheme,
                           !.is_file = inner.is_file,
                           !.file_path = copy("file_path"),
                           !.is_data = inner.is_data,
                           !.data_meta = copy("data_meta"),
                           !.data_payload = copy("data_payload"),
                           !.host = copy("host"),
                           !.port = copy("port"),
                           !.path = copy("path"),
                           !.has = OptionalAttrs,
                           !.none = { a \in OptionalAttrs : Getattr(inner, a) = << >> } ]

\* line 31: what follows the prefix, with the whitespace after it removed
InnerOfViewSource(url) == LStrip(SubSeq(url, Len("view-source:") + 1, Len(url)))

\* lines 19-121, URL(url): the object built, or Raise(e).  The constructor calls
\* itself on what follows a view-source: prefix (line 33).
URL(raw) ==
  LET init[r \in STRING] ==
        LET url == Strip(r)
        IN  IF StartsWith(url, "view-source:")
              THEN ViewSourceOf(init[InnerOfViewSource(url)])
            ELSE IF StartsWith(url, "data:") THEN DataURL(url)
            ELSE IF ~Contains(url, "://") THEN BarePathURL(url)
            ELSE LET sr == SplitFirst(url, "://")
                 IN  IF sr[1] = "file" THEN FileURL(sr[2])
                     ELSE HttpURL(sr[1], sr[2])
  IN  init[raw]

(***************************************************************************)
(* Dictionaries, byte streams and text                                     *)
(***************************************************************************)

\* {} : the empty dict
EmptyDict == [ k \in {} |-> 0 ]

\* d[k] = v
DictPut(d, k, v) == [ x \in (DOMAIN d) \cup {k} |-> IF x = k THEN v ELSE d[x] ]

\* del d[k]
DictDel(d, k) == [ x \in (DOMAIN d) \ {k} |-> d[x] ]

\* d.values()
DictValues(d) == { d[k] : k \in DOMAIN d }

\* response.read() in place of response.read(n)
ReadBytes_All(stream, n) == stream

\* response.read(n): at most n bytes of what the stream still holds; all of it
\* for a negative n, as for read() without an argument
ReadBytes(stream, n) ==
  IF n < 0 \/ n >= Len(stream) THEN stream ELSE SubSeq(stream, 1, n)

\* the code point bytes.decode(errors="replace") substitutes
ReplacementChar == 65533

\* body_bytes.decode("utf8", errors="replace") for one- and two-byte sequences:
\* an ASCII byte is its own code point, a lead byte 0xC2..0xDF with a
\* continuation byte is one code point, any other byte is replaced.
\* (Lead bytes 0xE0..0xF4 are outside the byte alphabet of the model.)
\* (from[i]: the text decoded from byte i on)
Utf8Decode(b) ==
  LET from[i \in 1..(Len(b) + 1)] ==
        IF i > Len(b) THEN << >>
        ELSE IF b[i] < 128 THEN << b[i] >> \o from[i + 1]
        ELSE IF b[i] >= 194 /\ b[i] <= 223 /\ i < Len(b)
                /\ b[i + 1] >= 128 /\ b[i + 1] <= 191
          THEN << (b[i] - 192) * 64 + (b[i + 1] - 128) >> \o from[i + 2]
        ELSE << ReplacementChar >> \o from[i + 1]
  IN  from[1]

(***************************************************************************)
(* URL.decode_data_url: base64, percent-decoding and the charsets          *)
(***************************************************************************)

\* the ASCII characters " " (32) to "_" (95) in code order
AsciiUpTo95 ==
  " !\"#$%&'()*+,-./0123456789:;<=>?@ABCDEFGHIJKLMNOPQRSTUVWXYZ[\\]^_"

\* the ASCII characters "a" (97) to "~" (126) in code order
AsciiFrom97 == "abcdefghijklmnopqrstuvwxyz{|}~"

\* ord(c) for the ASCII characters of the model's strings
Ord(c) ==
  CASE c = "\t" -> 9 [] c = "\n" -> 10 [] c = "\r" -> 13
    [] \E i \in 1..Len(AsciiUpTo95) : CharAt(AsciiUpTo95, i) = c ->
         31 + (CHOOSE i \in 1..Len(AsciiUpTo95) : CharAt(AsciiUpTo95, i) = c)
    [] OTHER ->
         96 + (CHOOSE i \in 1..Len(AsciiFrom97) : CharAt(AsciiFrom97, i) = c)

\* s.encode("utf-8") and the code points of s, which coincide for ASCII text
\* (the strings of the model are ASCII)
StrBytes(s) == [ i \in 1..Len(s) |-> Ord(CharAt(s, i)) ]

\* the value of a hexadecimal digit of either case, -1 for any other character
HexVal(c) ==
  LET lower == "0123456789abcdef"
      upper == "0123456789ABCDEF"
  IN  IF \E i \in 1..16 : CharAt(lower, i) = c
        THEN (CHOOSE i \in 1..16 : CharAt(lower, i) = c) - 1
      ELSE IF \E i \in 1..16 : CharAt(upper, i) = c
        THEN (CHOOSE i \in 1..16 : CharAt(upper, i) = c) - 1
      ELSE -1

\* urllib.parse.unquote_to_bytes(s), line 148: "%" followed by two hexadecimal
\* digits is one byte, every other character its own byte; it never raises
\* (from[i]: the bytes of s from character i on)
unquote_to_bytes(str) ==
  LET from[i \in 1..(Len(str) + 1)] ==
        IF i > Len(str) THEN << >>
        ELSE IF CharAt(str, i) = "%" /\ i + 2 <= Len(str)
                /\ HexVal(CharAt(str, i + 1)) >= 0 /\ HexVal(CharAt(str, i + 2)) >= 0
          THEN << 16 * HexVal(CharAt(str, i + 1)) + HexVal(CharAt(str, i + 2)) >>
                 \o from[i + 3]
        ELSE << Ord(CharAt(str, i)) >> \o from[i + 1]
  IN  from[1]

\* the base64 alphabet in value order
Base64Alphabet ==
  "ABCDEFGHIJKLMNOPQRSTUVWXYZabcdefghijklmnopqrstuvwxyz0123456789+/"

\* the 6-bit value of a base64 character, -1 for a character outside the alphabet
Base64Val(c) ==
  IF \E i \in 1..64 : CharAt(Base64Alphabet, i) = c
    THEN (CHOOSE i \in 1..64 : CharAt(Base64Alphabet, i) = c) - 1
    ELSE -1

\* base64.b64decode(s, validate=False), line 145, as binascii.a2b_base64 does
\* it: characters outside the alphabet are skipped, "=" ends the input once it
\* completes a group of four, and input that ends inside a group is an error.
\* ok is FALSE where binascii.Error is raised.
\* (st[i]: the decoder after the first i characters)
b64decode(str) ==
  LET st[i \in 0..Len(str)] ==
        IF i = 0
          THEN [ quad_pos |-> 0, leftchar |-> 0, pads |-> 0, out |-> << >>,
                 done |-> FALSE ]
        ELSE LET p == st[i - 1]
                 c == CharAt(str, i)
                 v == Base64Val(c)
             IN  IF p.done THEN p
                 ELSE IF c = "="
                   THEN IF p.quad_pos >= 2
                          THEN IF p.quad_pos + p.pads + 1 >= 4
                                 THEN [ p EXCEPT !.done = TRUE ]
                                 ELSE [ p EXCEPT !.pads = @ + 1 ]
                          ELSE p
                 ELSE IF v < 0 THEN p
                 ELSE CASE p.quad_pos = 0 ->
                             [ p EXCEPT !.quad_pos = 1, !.leftchar = v, !.pads = 0 ]
                        [] p.quad_pos = 1 ->
                             [ p EXCEPT !.quad_pos = 2, !.pads = 0,
                                        !.out = Append(@, p.leftchar * 4 + (v \div 16)),
                                        !.leftchar = v % 16 ]
                        [] p.quad_pos = 2 ->
                             [ p EXCEPT !.quad_pos = 3, !.pads = 0,
                                        !.out = Append(@, p.leftchar * 16 + (v \div 4)),
                                        !.leftchar = v % 4 ]
                        [] OTHER ->
                             [ p EXCEPT !.quad_pos = 0, !.pads = 0,
                                        !.out = Append(@, p.leftchar * 64 + v),
                                        !.leftchar = 0 ]
      end == st[Len(str)]
  IN  IF end.done \/ end.quad_pos = 0
        THEN [ ok |-> TRUE, bytes |-> end.out ]
        ELSE [ ok |-> FALSE, bytes |-> << >> ]

\* the codec a charset name selects, "" where the lookup raises LookupError.
\* The lookup ignores the case of the name; the names listed are those of the
\* three codecs the model decodes with.
CodecOf(charset) ==
  LET name == Casefold(charset)
  IN  IF name \in {"utf-8", "utf8", "utf_8"} THEN "utf-8"
      ELSE IF name \in {"latin-1", "latin1", "iso-8859-1"} THEN "latin-1"
      ELSE IF name \in {"ascii", "us-ascii"} THEN "ascii"
      ELSE ""

\* whether raw.decode("utf-8") raises UnicodeDecodeError (one- and two-byte
\* sequences, as for Utf8Decode)
\* (bad[i]: whether the bytes from i on are malformed)
Utf8Malformed(b) ==
  LET bad[i \in 1..(Len(b) + 1)] ==
        IF i > Len(b) THEN FALSE
        ELSE IF b[i] < 128 THEN bad[i + 1]
        ELSE IF b[i] >= 194 /\ b[i] <= 223 /\ i < Len(b)
                /\ b[i + 1] >= 128 /\ b[i + 1] <= 191
          THEN bad[i + 2]
        ELSE TRUE
  IN  bad[1]

\* raw.decode("latin-1"): every byte is its own code point
Latin1Decode(b) == b

\* raw.decode("ascii", errors="replace")
AsciiDecode(b) == [ i \in 1..Len(b) |-> IF b[i] < 128 THEN b[i] ELSE ReplacementChar ]

\* MetaFlags with parts in place of parts[1:] at line 136: the media type is
\* inspected as well
MetaFlags_AllParts(meta) ==
  LET parts == IF meta = "" THEN << >> ELSE SplitAll(meta, ";")
      scan[i \in 0..Len(parts)] ==
        IF i = 0 THEN [ is_base64 |-> FALSE, charset |-> "" ]
        ELSE LET p == parts[i]
             IN  IF Casefold(p) = "base64"
                   THEN [ scan[i - 1] EXCEPT !.is_base64 = TRUE ]
                 ELSE IF StartsWith(Casefold(p), "charset=")
                   THEN [ scan[i - 1] EXCEPT !.charset = SplitFirst(p, "=")[2] ]
                 ELSE scan[i - 1]
  IN  scan[Len(parts)]

\* lines 130-140: the flags read from the metadata.  charset "" stands for
\* None and for an empty value alike (both are falsy at line 154).
\* (scan[i]: the flags after the first i parts; part 1 is skipped)
MetaFlags(meta) ==
  LET parts == IF meta = "" THEN << >> ELSE SplitAll(meta, ";")
      scan[i \in 0..Len(parts)] ==
        IF i <= 1 THEN [ is_base64 |-> FALSE, charset |-> "" ]
        ELSE LET p == parts[i]
             IN  IF Casefold(p) = "base64"
                   THEN [ scan[i - 1] EXCEPT !.is_base64 = TRUE ]
                 ELSE IF StartsWith(Casefold(p), "charset=")
                   THEN [ scan[i - 1] EXCEPT !.charset = SplitFirst(p, "=")[2] ]
                 ELSE scan[i - 1]
  IN  scan[Len(parts)]

\* PayloadBytes without the try/except of lines 143-151: binascii.Error leaves
\* decode_data_url
PayloadBytes_Unguarded(is_base64, payload) ==
  IF is_base64
    THEN IF b64decode(payload).ok
           THEN [ raised |-> "", raw |-> b64decode(payload).bytes ]
           ELSE [ raised |-> "binascii.Error", raw |-> << >> ]
    ELSE [ raised |-> "", raw |-> unquote_to_bytes(payload) ]

\* lines 142-151: the payload as bytes; a base64 payload that does not decode
\* is taken as the bytes of its characters
PayloadBytes(is_base64, payload) ==
  IF is_base64
    THEN IF b64decode(payload).ok
           THEN [ raised |-> "", raw |-> b64decode(payload).bytes ]
           ELSE [ raised |-> "", raw |-> StrBytes(payload) ]
    ELSE [ raised |-> "", raw |-> unquote_to_bytes(payload) ]

\* DecodeText with US-ASCII, the default of RFC 2397 that line 155 mentions, in
\* place of the UTF-8 and Latin-1 attempts of lines 156-161
DecodeText_UsAscii(charset, raw) ==
  IF charset = "" THEN AsciiDecode(raw)
  ELSE IF CodecOf(charset) = "utf-8" THEN Utf8Decode(raw)
  ELSE IF CodecOf(charset) = "latin-1" THEN Latin1Decode(raw)
  ELSE IF CodecOf(charset) = "ascii" THEN AsciiDecode(raw)
  ELSE Utf8Decode(raw)

\* lines 153-166: the bytes as text
DecodeText(charset, raw) ==
  IF charset = ""
    THEN IF ~Utf8Malformed(raw) THEN Utf8Decode(raw) ELSE Latin1Decode(raw)
  ELSE IF CodecOf(charset) = "utf-8" THEN Utf8Decode(raw)
  ELSE IF CodecOf(charset) = "latin-1" THEN Latin1Decode(raw)
  ELSE IF CodecOf(charset) = "ascii" THEN AsciiDecode(raw)
  ELSE Utf8Decode(raw)

\* lines 123-166: the text returned, or the exception raised
decode_data_url(meta, payload) ==
  LET flags == MetaFlags(meta)
      bytes == PayloadBytes(flags.is_base64, payload)
  IN  IF bytes.raised /= "" THEN [ raised |-> bytes.raised, text |-> << >> ]
      ELSE [ raised |-> "", text |-> DecodeText(flags.charset, bytes.raw) ]

\* the metadata of the data locators tried
DataMetas ==
  { "", "text/plain", "text/plain;base64", "text/html;BASE64", "base64",
    ";base64", "text/plain;charset=utf-8", ";charset=latin-1", ";charset=bogus",
    ";charset=", ";CharSet=ASCII", "text/plain;charset=utf-8;base64",
    ";base64;charset=latin-1", "; base64", "base64;charset=UTF8",
    ";charset=latin-1;charset=utf-8", ";base64x", ";base64;charset=bogus" }

\* the payloads of the data locators tried
DataPayloads ==
  { "Hello%20world!", "SGVsbG8gV29ybGQh", "SGk=", "SGk", "S", "%FF", "%C3%A9",
    "%c3%a9%41", "%zz", "%4", "<b>hi</b>", "a+b", "", "%3Cp%3E&lt;", "SGk=SGk=",
    "/+8=", "w6k=", "/w==", "S G\tk=", "=SGk", "SG=k", "%%41", "a,b" }

(***************************************************************************)
(* URL.show and print: what reaches standard output                        *)
(***************************************************************************)

\* lines 316-324: the characters outside "<" ... ">" spans
\* (scan[i]: in_tag and output after the first i characters)
StripTags(text) ==
  LET scan[i \in 0..Len(text)] ==
        IF i = 0 THEN [ in_tag |-> FALSE, output |-> << >> ]
        ELSE LET p == scan[i - 1]
             IN  IF text[i] = Ord("<") THEN [ p EXCEPT !.in_tag = TRUE ]
                 ELSE IF text[i] = Ord(">") THEN [ p EXCEPT !.in_tag = FALSE ]
                 ELSE IF ~p.in_tag THEN [ p EXCEPT !.output = Append(@, text[i]) ]
                 ELSE p
  IN  scan[Len(text)].output

\* text.replace(old, new) for a non-empty old
\* (from[i]: the result for the text from position i on)
Replace(text, old, new) ==
  LET from[i \in 1..(Len(text) + 1)] ==
        IF i > Len(text) THEN << >>
        ELSE IF i + Len(old) - 1 <= Len(text) /\ SubSeq(text, i, i + Len(old) - 1) = old
          THEN new \o from[i + Len(old)]
        ELSE << text[i] >> \o from[i + 1]
  IN  from[1]

\* lines 309-328, show(body): what print(output, end="") writes
show(text) ==
  Replace(Replace(StripTags(text), StrBytes("&lt;"), StrBytes("<")),
          StrBytes("&gt;"), StrBytes(">"))

\* print(body): the text and a newline
print(text) == text \o << 10 >>

\* line 378: the banner the program prints before its own request
Banner == "\n\n=== Second request (should reuse socket) ===\n"

(***************************************************************************)
(* URL.get_socket: the keep-alive socket cache                             *)
(***************************************************************************)

\* line 17
MAX_REDIRECTS == 10

\* What the liveness probe of lines 177-199 can observe on a cached socket:
\*   "nodata"  recv raises BlockingIOError            (lines 188-191)
\*   "closed"  recv returns b''                       (lines 183-185)
\*   "error"   setblocking or recv raises otherwise   (line 192)
\*   "data"    recv returns a byte: no exception, control leaves the try
ProbeOutcomes == {"nodata", "closed", "error", "data"}

\* ProbeAlive with a handle returned also when recv() returned a byte
ProbeAlive_OrDataPending(probe) == probe \in {"nodata", "data"}

\* ProbeAlive without the except BlockingIOError clause of lines 188-191
ProbeAlive_Never(probe) == FALSE

\* lines 188-191: the probe found the socket open and idle, it is returned
ProbeAlive(probe) == probe = "nodata"

\* ProbeDead without the b'' test of lines 183-185
ProbeDead_ErrorOnly(probe) == probe = "error"

\* lines 183-185 and 192: the probe found the socket closed or unusable
ProbeDead(probe) == probe \in {"closed", "error"}

\* line 170: (self.scheme, self.host, self.port)
CacheKey(u) == << u.scheme, u.host, u.port >>

\* a socket object as the cache sees it: the key it was opened for and the
\* number of close() calls made on it
NewSocket(key) == [ key |-> key, closes |-> 0 ]

\* s.close() on socket i
CloseSocket(sk, i) == [ sk EXCEPT ![i].closes = @ + 1 ]

\* get_socket reading host and port with defaults, as lines 41-42 do, in place
\* of the attribute reads of line 170: a locator without a host gets a socket
get_socket_HostOrDefault(u, cache, sk, probe, connect_ok) ==
  LET key    == CacheKey(u)
      cached == key \in DOMAIN cache
      dead   == cached /\ ProbeDead(probe)
      sk1    == IF dead THEN CloseSocket(sk, cache[key]) ELSE sk
      cache1 == IF dead THEN DictDel(cache, key) ELSE cache
      new    == Len(sk1) + 1
  IN  IF cached /\ ProbeAlive(probe)
        THEN [ cache |-> cache, socks |-> sk, s |-> cache[key], raised |-> "",
               reused |-> TRUE, evicted |-> 0 ]
      ELSE IF ~connect_ok
        THEN [ cache |-> cache1, socks |-> sk1, s |-> 0, raised |-> "OSError",
               reused |-> FALSE, evicted |-> IF dead THEN cache[key] ELSE 0 ]
      ELSE [ cache |-> DictPut(cache1, key, new),
             socks |-> Append(sk1, NewSocket(key)), s |-> new, raised |-> "",
             reused |-> FALSE, evicted |-> IF dead THEN cache[key] ELSE 0 ]

\* lines 168-218.  probe is the outcome of the liveness probe (read only when
\* the key is cached), connect_ok whether connect and the TLS handshake succeed
\* (read only when a socket is created).  The result carries the cache and the
\* sockets afterwards, the socket returned (0 when raising) and the exception.
\* A socket object whose connect() or handshake raises (lines 209-214) never
\* reaches the cache (line 217) and is not recorded among the sockets.
get_socket(u, cache, sk, probe, connect_ok) ==
  IF "host" \notin u.has
    THEN [ cache |-> cache, socks |-> sk, s |-> 0, raised |-> "AttributeError",
           reused |-> FALSE, evicted |-> 0 ]
  ELSE IF "host" \in u.none
    THEN [ cache |-> cache, socks |-> sk, s |-> 0, raised |-> "TypeError",
           reused |-> FALSE, evicted |-> 0 ]
  ELSE
    LET key    == CacheKey(u)
        cached == key \in DOMAIN cache
        dead   == cached /\ ProbeDead(probe)
        sk1    == IF dead THEN CloseSocket(sk, cache[key]) ELSE sk
        cache1 == IF dead THEN DictDel(cache, key) ELSE cache
        new    == Len(sk1) + 1
    IN  IF cached /\ ProbeAlive(probe)
          THEN [ cache |-> cache, socks |-> sk, s |-> cache[key], raised |-> "",
                 reused |-> TRUE, evicted |-> 0 ]
        ELSE IF ~connect_ok
          THEN [ cache |-> cache1, socks |-> sk1, s |-> 0, raised |-> "OSError",
                 reused |-> FALSE, evicted |-> IF dead THEN cache[key] ELSE 0 ]
        ELSE [ cache |-> DictPut(cache1, key, new),
               socks |-> Append(sk1, NewSocket(key)), s |-> new, raised |-> "",
               reused |-> FALSE, evicted |-> IF dead THEN cache[key] ELSE 0 ]

\* whether get_socket gets as far as socket.socket() (line 202)
CreatesSocket(u, cache, probe) ==
  /\ "host" \in (u.has \ u.none)
  /\ ~(CacheKey(u) \in DOMAIN cache /\ ProbeAlive(probe))

(***************************************************************************)
(* URL.resolve_redirect_location and URL.request                           *)
(***************************************************************************)

\* str(n) for a natural number (format of lines 229 and 233)
NatToStr(n) ==
  LET str[m \in Nat] ==
        LET d == CharAt("0123456789", (m % 10) + 1)
        IN  IF m < 10 THEN d ELSE str[m \div 10] \o d
  IN  str[n]

\* f"{port}"
IntToStr(n) == IF n < 0 THEN "-" \o NatToStr(0 - n) ELSE NatToStr(n)

\* resolve_redirect_location without the port in the string it builds
resolve_redirect_location_NoPort(u, loc) ==
  IF Contains(loc, "://") THEN loc
  ELSE IF StartsWith(loc, "/")
    THEN u.scheme \o "://" \o u.host \o loc
  ELSE u.scheme \o "://" \o u.host \o RSplitHead(u.path, "/") \o "/" \o loc

\* lines 220-233
resolve_redirect_location(u, loc) ==
  IF Contains(loc, "://") THEN loc
  ELSE IF StartsWith(loc, "/")
    THEN u.scheme \o "://" \o u.host \o ":" \o IntToStr(u.port) \o loc
  ELSE u.scheme \o "://" \o u.host \o ":" \o IntToStr(u.port)
         \o RSplitHead(u.path, "/") \o "/" \o loc

\* request() without the hop bound of lines 238-239
too_many_redirects_never(redirect_count) == FALSE

\* the hop bound with >= for >
too_many_redirects_ge(redirect_count) == redirect_count >= MAX_REDIRECTS

\* line 238: the hop bound
too_many_redirects(redirect_count) == redirect_count > MAX_REDIRECTS

\* RequestText with the authority (host and port) in the Host header
RequestText_HostPort(u) ==
  "GET " \o u.path \o " HTTP/1.1\r\n" \o "Host: " \o u.host \o ":"
    \o IntToStr(u.port) \o "\r\n"
    \o "Connection: keep-alive\r\n" \o "User-Agent: user\r\n" \o "\r\n"

\* lines 243-247: the request written to the socket
RequestText(u) ==
  "GET " \o u.path \o " HTTP/1.1\r\n" \o "Host: " \o u.host \o "\r\n"
    \o "Connection: keep-alive\r\n" \o "User-Agent: user\r\n" \o "\r\n"

\* response.readline(): the next line of the response, "" at the end of the stream
ReadLine(lines) == IF Len(lines) = 0 THEN "" ELSE Head(lines)

\* what readline() leaves to be read
AfterLine(lines) == IF Len(lines) = 0 THEN lines ELSE Tail(lines)

\* lines 254-257: <<TRUE, status_code>>, or <<FALSE, 0>> where the unpacking of
\* split(" ", 2) or int(status) raises ValueError
ParseStatusLine(status_line) ==
  LET p1 == SplitFirst(status_line, " ")
      p2 == IF Len(p1) = 2 THEN SplitFirst(p1[2], " ") ELSE << >>
  IN  IF Len(p2) = 2 THEN ParseInt(p2[1]) ELSE << FALSE, 0 >>

\* lines 260-265: the header loop over the lines that follow the status line.
\* ok is FALSE where line.split(":", 1) does not unpack (a line without a
\* colon, or the empty line readline() returns at the end of the stream).
\* (loop[i]: the loop about to read line i with response_headers as built so far)
ReadHeaders(lines) ==
  LET loop[i \in 1..(Len(lines) + 1)] ==
        LET line == IF i > Len(lines) THEN "" ELSE lines[i]
            hv   == SplitFirst(line, ":")
        IN  IF line = "\r\n" THEN [ ok |-> TRUE, headers |-> EmptyDict ]
            ELSE IF Len(hv) /= 2 THEN [ ok |-> FALSE, headers |-> EmptyDict ]
            ELSE LET rest == loop[i + 1]
                     name == Casefold(hv[1])
                 IN  [ ok |-> rest.ok,
                       headers |-> IF name \in DOMAIN rest.headers THEN rest.headers
                                   ELSE DictPut(rest.headers, name, Strip(hv[2])) ]
  IN  loop[1]

\* response_headers.get(name): "" stands for None (both are falsy at lines 277, 290)
HeaderGet(headers, name) == IF name \in DOMAIN headers THEN headers[name] ELSE ""

\* lines 268-269
ForbiddenHeaders == {"transfer-encoding", "content-encoding"}

\* the redirect test for 301 and 302 only
IsRedirectStatus_MovedOrFound(code) == code \in {301, 302}

\* line 271
IsRedirectStatus(code) == 300 <= code /\ code < 400

\* what request() hands back or raises
Returned(text) == [ kind |-> "body", error |-> "", text |-> text ]

\* an exception leaving request()
Failure(e) == [ kind |-> "error", error |-> e, text |-> << >> ]

\* request() has not returned
NoResult == [ kind |-> "none", error |-> "", text |-> << >> ]

\* lines 254-265 for one response: the status line and the header block
ReadHead(resp) ==
  LET status == ParseStatusLine(ReadLine(resp.lines))
      hdr    == ReadHeaders(AfterLine(resp.lines))
  IN  [ ok |-> status[1] /\ hdr.ok, status_code |-> status[2],
        headers |-> IF status[1] /\ hdr.ok THEN hdr.headers ELSE EmptyDict ]

\* drain_redirect_body without the read of line 279
drain_redirect_body_Skip(content_length, n) == << >>

\* lines 276-279: the read() calls made on the body of a redirect response,
\* read(n) where a content-length of n is present, none otherwise; what is
\* read is not kept
drain_redirect_body(content_length, n) ==
  IF content_length /= "" THEN << n >> ELSE << >>

\* lines 250-307 for one response read from the socket: head is ReadHead of
\* the response, stream the bytes that follow its header block.
\* The result tells how request() goes on:
\*   next = "return"    ret is the decoded body
\*   next = "raise"     ret is the exception
\*   next = "redirect"  target is the URL object request() recurses on
\* reads lists the sizes of the read() calls made on the body (-1 for read()),
\* discard tells whether the cache entry of this key is closed and deleted.
request_response(u, head, stream) ==
  LET h    == head.headers
      seen == [ next |-> "raise", ret |-> NoResult, target |-> NewURL,
                status_code |-> head.status_code, headers |-> h, reads |-> << >>,
                body_bytes |-> << >>, discard |-> FALSE ]
      cl   == HeaderGet(h, "content-length")
      n    == ParseInt(cl)
  IN  IF ~head.ok THEN [ seen EXCEPT !.ret = Failure("ValueError") ]
      ELSE IF (DOMAIN h) \cap ForbiddenHeaders /= {}
        THEN [ seen EXCEPT !.ret = Failure("AssertionError") ]
      ELSE IF IsRedirectStatus(head.status_code)
        THEN IF "location" \notin DOMAIN h
               THEN [ seen EXCEPT !.ret = Failure("RedirectMissingLocation") ]
             ELSE IF cl /= "" /\ ~n[1]
               THEN [ seen EXCEPT !.ret = Failure("ValueError") ]
             ELSE LET drained == drain_redirect_body(cl, n[2])
                      target  == URL(resolve_redirect_location(u, h["location"]))
                  IN  IF Raised(target)
                        THEN [ seen EXCEPT !.ret = Failure(target.raised),
                                           !.reads = drained ]
                      ELSE [ seen EXCEPT !.next = "redirect", !.target = target,
                                         !.reads = drained ]
      ELSE IF cl /= ""
        THEN IF ~n[1] THEN [ seen EXCEPT !.ret = Failure("ValueError") ]
             ELSE LET body_bytes == ReadBytes(stream, n[2])
                  IN  [ seen EXCEPT !.next = "return", !.reads = << n[2] >>,
                                    !.body_bytes = body_bytes,
                                    !.ret = Returned(Utf8Decode(body_bytes)) ]
      ELSE [ seen EXCEPT !.next = "return", !.reads = << -1 >>,
                         !.body_bytes = ReadBytes(stream, -1),
                         !.ret = Returned(Utf8Decode(ReadBytes(stream, -1))),
                         !.discard = TRUE ]

\* discard_socket without the del of line 303
discard_socket_keeps(u, cache, sk) ==
  LET key == CacheKey(u)
  IN  IF key \in DOMAIN cache
        THEN [ cache |-> cache, socks |-> CloseSocket(sk, cache[key]) ]
        ELSE [ cache |-> cache, socks |-> sk ]

\* lines 295-303: the socket of this key is closed and its entry deleted
discard_socket(u, cache, sk) ==
  LET key == CacheKey(u)
  IN  IF key \in DOMAIN cache
        THEN [ cache |-> DictDel(cache, key), socks |-> CloseSocket(sk, cache[key]) ]
        ELSE [ cache |-> cache, socks |-> sk ]

\* close_all without the try/except of lines 363-366: the first close() that
\* raises ends the loop, the later sockets stay open and the cache is not cleared
close_all_unguarded(cache, sk, raising) ==
  IF raising = {}
    THEN [ cache |-> EmptyDict,
           socks |-> [ i \in 1..Len(sk) |->
                         IF i \in DictValues(cache)
                           THEN [ sk[i] EXCEPT !.closes = @ + 1 ] ELSE sk[i] ] ]
  ELSE [ cache |-> cache,
         socks |-> [ i \in 1..Len(sk) |->
                       IF i \in DictValues(cache) /\ i <= MinOf(raising)
                         THEN [ sk[i] EXCEPT !.closes = @ + 1 ] ELSE sk[i] ] ]

\* lines 359-367: every cached socket gets one close() call, whether or not a
\* close() raises, and the cache is cleared
close_all(cache, sk, raising) ==
  [ cache |-> EmptyDict,
    socks |-> [ i \in 1..Len(sk) |->
                  IF i \in DictValues(cache)
                    THEN [ sk[i] EXCEPT !.closes = @ + 1 ] ELSE sk[i] ] ]

(***************************************************************************)
(* Bounds and inputs                                                       *)
(***************************************************************************)

\* the number of sockets the model lets the program open
MaxSockets == 2

\* the number of redirects the servers of Spec answer within one fetch
MaxHops == 1

\* status lines a server answers with
StatusOK == "HTTP/1.1 200 OK\r\n"

StatusMoved == "HTTP/1.1 301 Moved Permanently\r\n"

StatusFound == "HTTP/1.1 302 Found\r\n"

StatusNotModified == "HTTP/1.1 304 Not Modified\r\n"

\* a complete response: status line, header lines, the empty line, the body
Resp(status_line, header_lines, stream) ==
  [ lines  |-> << status_line >> \o header_lines \o << "\r\n" >>,
    stream |-> stream ]

\* responses with a body and no redirect
BodyResponses ==
  { Resp(StatusOK, << "Content-Length: 2\r\n" >>, << 65, 66, 67 >>),
    Resp(StatusOK, << "content-length: 2\r\n" >>, << 195, 169 >>),
    Resp(StatusOK, << "Content-Length: 2\r\n" >>, << 65 >>),
    Resp(StatusOK, << "Content-Length: 0\r\n" >>, << >>),
    Resp(StatusOK, << "Content-Length: 5\r\n", "CONTENT-LENGTH: 1\r\n" >>, << 65, 66 >>),
    Resp(StatusOK, << >>, << 65, 255 >>),
    Resp(StatusOK, << "Content-Type: text/html\r\n" >>, << >>),
    Resp(StatusOK, << "Content-Length:\r\n" >>, << 66 >>) }

\* redirects
RedirectResponses ==
  { Resp(StatusMoved, << "Location: /x\r\n", "Content-Length: 2\r\n" >>, << 65, 66 >>),
    Resp(StatusMoved, << "location: x\r\n" >>, << >>),
    Resp(StatusFound, << "LOCATION: http://b/\r\n", "Content-Length: 0\r\n" >>, << >>),
    Resp(StatusFound, << "Location: https://a:80/\r\n" >>, << 65 >>),
    Resp(StatusMoved, << "Location: file:///f\r\n" >>, << >>),
    Resp(StatusMoved, << "Location: ftp://a/\r\n", "Content-Length: 1\r\n" >>, << 65 >>),
    Resp(StatusMoved, << "Location: http://a:z/\r\n" >>, << >>),
    Resp(StatusMoved, << "Location: /x\r\n", "Content-Length: abc\r\n" >>, << >>) }

\* responses request() rejects
RejectedResponses ==
  { Resp(StatusNotModified, << "Content-Length: 0\r\n" >>, << >>),
    Resp(StatusNotModified, << "Content-Encoding: gzip\r\n" >>, << >>),
    Resp(StatusOK, << "Transfer-Encoding: chunked\r\n" >>, << 65 >>),
    Resp(StatusOK, << "CONTENT-ENCODING: gzip\r\n", "Content-Length: 1\r\n" >>, << 65 >>),
    Resp(StatusMoved, << "Location: /x\r\n", "transfer-encoding: chunked\r\n" >>, << >>),
    Resp("HTTP/1.1 200\r\n", << >>, << >>),
    Resp("HTTP/1.1 abc OK\r\n", << >>, << >>),
    Resp(StatusOK, << "Content-Length 2\r\n" >>, << 65, 66 >>),
    Resp(StatusOK, << "Content-Length: abc\r\n" >>, << 65, 66 >>),
    [ lines |-> << StatusOK, "Content-Length: 2\r\n" >>, stream |-> << >> ] }

\* what a server may answer
Responses == BodyResponses \cup RedirectResponses \cup RejectedResponses


\* the locators the caller fetches
StartURLs == { "http://a/", "http://a:8/x", "https://a:80/" }

\* the servers of SpecChain: they redirect without end, within one host or to
\* another, or answer with a body, or with a redirect status and no location
ChainResponses ==
  { Resp(StatusMoved, << "Location: /x\r\n", "Content-Length: 2\r\n" >>, << 65, 66 >>),
    Resp(StatusFound, << "LOCATION: http://b/\r\n", "Content-Length: 0\r\n" >>, << >>),
    Resp(StatusMoved, << "location: x\r\n" >>, << >>),
    Resp(StatusMoved, << "Location: ftp://a/\r\n" >>, << >>),
    Resp(StatusOK, << "Content-Length: 2\r\n" >>, << 65, 66, 67 >>),
    Resp(StatusOK, << >>, << 65, 255 >>),
    Resp(StatusNotModified, << "Content-Length: 0\r\n" >>, << >>),
    Resp(StatusOK, << "Transfer-Encoding: chunked\r\n" >>, << 65 >>) }

\* the locator SpecChain fetches
ChainURLs == { "http://a/" }

(***************************************************************************)
(* State                                                                   *)
(***************************************************************************)

VARIABLES
  arg,               \* the string handed to URL(...)
  obj,               \* << >>, then << the object URL(arg) built, or Raise(e) >>
  socket_cache,      \* URL.socket_cache: key -> socket
  socks,             \* every socket connected so far, in order of creation
  pc,                \* where the caller is
  self,              \* the URL object request() runs on
  redirect_count,    \* the argument of request()
  s,                 \* the socket get_socket() returned to request()
  ret,               \* what the outermost request() returned or raised
  probe,             \* the outcome of the last liveness probe
  request,           \* the last request written to a socket
  response,          \* the last response read from a socket
  sent,              \* the number of requests written since the fetch began
  status_code,       \* of the last response
  response_headers,  \* of the last response
  reads,             \* the read() sizes asked of the last response's body
  body_bytes,        \* the body bytes read from the last response
  swallowed,         \* the sockets whose close() raised in the last step
  location,          \* the location handed to resolve_redirect_location()
  redirect_url_str,  \* << >>, then << what resolve_redirect_location() returned >>
  argv,              \* sys.argv of the program run, << >> when none was started
  callers,           \* the calls in progress above request(): main, load
  body,              \* the text load() obtained
  stdout             \* the text written to standard output, as code points

vars == << arg, obj, socket_cache, socks, pc, self, redirect_count, s, ret, probe,
           request, response, sent, status_code, response_headers, reads, body_bytes,
           swallowed, location, redirect_url_str, argv, callers, body, stdout >>

\* the argument and the result of a call of resolve_redirect_location()
resolveVars == << location, redirect_url_str >>

\* the state of load() and of the program around it
loadVars == << argv, callers, body, stdout >>

urlVars == << arg, obj >>

hopVars == << probe, request, response, status_code, response_headers, reads,
             body_bytes >>

\* no request() is running: the caller may start one or tear the cache down
AtRest == pc \in {"idle", "done", "failed", "shutdown"}

\* nothing was read yet
NoResponse == [ lines |-> << >>, stream |-> << >> ]

\* no hop of a fetch has run yet
NoHop ==
  /\ probe = ""
  /\ request = ""
  /\ response = NoResponse
  /\ status_code = 0
  /\ response_headers = EmptyDict
  /\ reads = << >>
  /\ body_bytes = << >>

\* resolve_redirect_location() was not called, no program and no load() runs
NoCall ==
  /\ location = ""
  /\ redirect_url_str = << >>
  /\ argv = << >>
  /\ callers = << >>
  /\ body = << >>
  /\ stdout = << >>

\* the variables of a hop are cleared
ResetHop ==
  /\ probe' = ""
  /\ request' = ""
  /\ response' = NoResponse
  /\ status_code' = 0
  /\ response_headers' = EmptyDict
  /\ reads' = << >>
  /\ body_bytes' = << >>

Init ==
  /\ arg = ""
  /\ obj = << >>
  /\ socket_cache = EmptyDict
  /\ socks = << >>
  /\ pc = "idle"
  /\ self = NewURL
  /\ redirect_count = 0
  /\ s = 0
  /\ ret = NoResult
  /\ sent = 0
  /\ swallowed = {}
  /\ NoHop
  /\ NoCall

(***************************************************************************)
(* Actions                                                                 *)
(***************************************************************************)

\* lines 352-353 (and the tests): url = URL(u); url.request()
request_enter(u) ==
  /\ AtRest
  /\ ~Raised(URL(u))
  /\ pc' = "request"
  /\ self' = URL(u)
  /\ redirect_count' = 0
  /\ s' = 0
  /\ ret' = NoResult
  /\ sent' = 0
  /\ swallowed' = {}
  /\ ResetHop
  /\ UNCHANGED << socket_cache, socks, urlVars, resolveVars, loadVars >>

\* lines 238-241: the hop bound, then s = self.get_socket()
request_begin(probe_in, connect_ok, close_raises) ==
  /\ pc = "request"
  /\ close_raises => probe_in \in {"closed", "error"}
  /\ (CreatesSocket(self, socket_cache, probe_in) /\ connect_ok) =>
        Len(socks) < MaxSockets
  /\ \E g \in { IF too_many_redirects(redirect_count)
                  THEN [ cache |-> socket_cache, socks |-> socks, s |-> 0,
                         raised |-> "TooManyRedirects", reused |-> FALSE,
                         evicted |-> 0 ]
                ELSE get_socket(self, socket_cache, socks, probe_in, connect_ok) } :
         /\ socket_cache' = g.cache
         /\ socks' = g.socks
         /\ s' = g.s
         /\ swallowed' = IF close_raises /\ g.evicted /= 0 THEN {g.evicted} ELSE {}
         /\ pc' = IF g.raised = "" THEN "acquired" ELSE "failed"
         /\ ret' = IF g.raised = "" THEN ret ELSE Failure(g.raised)
  /\ probe' = IF too_many_redirects(redirect_count) THEN probe
              ELSE IF "host" \in (self.has \ self.none)
                      /\ CacheKey(self) \in DOMAIN socket_cache
                THEN probe_in ELSE "uncached"
  /\ UNCHANGED << self, redirect_count, request, response, sent, status_code,
                  response_headers, reads, body_bytes, urlVars, resolveVars,
                  loadVars >>

\* lines 243-307: the request is sent, one response is read and acted upon
request_exchange(resp, close_raises, hops) ==
  /\ pc = "acquired"
  /\ request' = RequestText(self)
  /\ response' = resp
  /\ sent' = sent + 1
  /\ \E r \in { request_response(self, ReadHead(resp), resp.stream) } :
     \E d \in { IF r.discard THEN discard_socket(self, socket_cache, socks)
                ELSE [ cache |-> socket_cache, socks |-> socks ] } :
         /\ r.next = "redirect" => redirect_count < hops
         /\ close_raises => r.discard
         /\ status_code' = r.status_code
         /\ response_headers' = r.headers
         /\ reads' = r.reads
         /\ body_bytes' = r.body_bytes
         /\ socket_cache' = d.cache
         /\ socks' = d.socks
         /\ swallowed' = IF close_raises /\ r.discard
                           THEN DictValues(socket_cache) \ DictValues(d.cache) ELSE {}
         /\ pc' = CASE r.next = "return" -> "done"
                    [] r.next = "raise" -> "failed"
                    [] OTHER -> "request"
         /\ ret' = IF r.next = "redirect" THEN ret ELSE r.ret
         /\ self' = IF r.next = "redirect" THEN r.target ELSE self
         /\ redirect_count' = IF r.next = "redirect" THEN redirect_count + 1
                              ELSE redirect_count
  /\ UNCHANGED << s, probe, urlVars, resolveVars, loadVars >>

\* lines 359-367
close_all_sockets(raising) ==
  /\ AtRest
  /\ \E c \in { close_all(socket_cache, socks, raising) } :
         /\ socket_cache' = c.cache
         /\ socks' = c.socks
  /\ swallowed' = raising
  /\ pc' = "shutdown"
  /\ self' = NewURL
  /\ redirect_count' = 0
  /\ s' = 0
  /\ ret' = NoResult
  /\ sent' = 0
  /\ ResetHop
  /\ UNCHANGED << urlVars, resolveVars, loadVars >>

Next ==
  \/ \E u \in StartURLs : request_enter(u)
  \/ \E p \in ProbeOutcomes, c \in BOOLEAN, e \in BOOLEAN : request_begin(p, c, e)
  \/ \E r \in Responses, e \in BOOLEAN : request_exchange(r, e, MaxHops)
  \/ \E raising \in SUBSET DictValues(socket_cache) : close_all_sockets(raising)

\* fetches of a few hops against servers of every kind
Spec == Init /\ [][Next]_vars

NextChain ==
  \/ \E u \in ChainURLs : request_enter(u)
  \/ \E p \in ProbeOutcomes, c \in BOOLEAN, e \in BOOLEAN : request_begin(p, c, e)
  \/ \E r \in ChainResponses, e \in BOOLEAN :
        request_exchange(r, e, MAX_REDIRECTS + 1)
  \/ \E raising \in SUBSET DictValues(socket_cache) : close_all_sockets(raising)

\* fetches against servers that redirect without end
SpecChain == Init /\ [][NextChain]_vars

\* a call of request() in progress moves on: every step of request_begin and
\* of request_exchange changes pc, and in every state with pc "request" or
\* "acquired" one of them can be taken
FetchAdvances ==
  /\ pc \in {"request", "acquired"}
  /\ pc' \in {"request", "acquired", "done", "failed"}
  /\ pc' /= pc

\* SpecChain where a fetch that was started goes on: request() is sequential
\* code on one thread, its blocking calls (connect, send, readline, read)
\* return once the peer has answered or the operation has failed, so a call
\* in progress does not stay where it is for ever
SpecChainFair == SpecChain /\ WF_pc(FetchAdvances)

(***************************************************************************)
(* The constructor alone, over a set of locator strings                    *)
(***************************************************************************)

\* locator strings without a view-source: prefix and without surrounding
\* whitespace: http and https, file, bare paths, data, and strings that
\* URL() rejects
PlainLocators ==
  { "http://a/", "https://example.org/", "http://example.com:8080/path",
    "http://a", "https://a:8/p/q", "http://a/d/p?q=1", "https://b:443",
    "http://a:x/", "http://a:/", "ftp://a/", "://a", "HTTP://a/",
    "http://a?q=1", "http://a:-1/x", "https://a:08//", "http://u:p@h/",
    "http://:80/", "https://a/x://y", "a/b://c", "mailto://", "File:///f",
    "file:///f", "file:///C:/x", "file://", "file://a//b/../c", "file://./",
    "a/b.html", "", "./a/../b", "/abs//p/", "..",
    "data:text/plain,Hello%20world!", "data:text/html;base64,SGk=",
    "data:nocomma", "data:,", "data:,a,b", "DATA:,x", "data:x,http://a/" }

\* the whitespace tried between the view-source: prefix and what follows
PrefixSpaces == { "", " ", "\t  " }

\* the strings handed to URL(): plain, wrapped once or twice, and padded
Locators ==
  PlainLocators
    \cup { "view-source:" \o w \o x : w \in PrefixSpaces, x \in PlainLocators }
    \cup { "view-source:view-source:" \o x : x \in PlainLocators }
    \cup { " " \o x \o "\r\n" : x \in PlainLocators }

InitURL ==
  /\ arg \in Locators
  /\ obj = << >>
  /\ socket_cache = EmptyDict
  /\ socks = << >>
  /\ pc = "idle"
  /\ self = NewURL
  /\ redirect_count = 0
  /\ s = 0
  /\ ret = NoResult
  /\ sent = 0
  /\ swallowed = {}
  /\ NoHop
  /\ NoCall

\* obj = URL(arg)
URL_init ==
  /\ pc = "idle"
  /\ obj = << >>
  /\ obj' = << URL(arg) >>
  /\ UNCHANGED << arg, socket_cache, socks, pc, self, redirect_count, s, ret,
                  sent, swallowed, hopVars, resolveVars, loadVars >>

NextURL == URL_init

\* the constructor applied to each locator string
SpecURL == InitURL /\ [][NextURL]_vars

(***************************************************************************)
(* URL.load and the program: data, file and http locators                  *)
(***************************************************************************)

\* what open(file_path).read() yields at line 344-345: a text, or an exception
FileReads ==
  { [ raised |-> "", text |-> StrBytes("<p>f &gt; g</p>") ],
    [ raised |-> "", text |-> StrBytes("plain") ],
    [ raised |-> "FileNotFoundError", text |-> << >> ] }

\* the locators handed to load(): data locators of every metadata and payload,
\* some of them wrapped in view-source:, files, http, and strings URL() rejects
LoadLocators ==
  { "data:" \o m \o "," \o p : m \in DataMetas, p \in DataPayloads }
    \cup { "view-source:data:" \o m \o "," \o p :
             m \in { "text/html", ";base64" }, p \in { "<b>hi</b>", "SGk=", "a+b" } }
    \cup { "data:nocomma", "file:///f", "a/b.html", "view-source:file:///f",
           "http://a/", "view-source:http://a/", "view-source: https://a:80/x",
           "ftp://a/" }

\* what the servers answer to the requests of load()
LoadResponses ==
  { Resp(StatusOK, << "Content-Length: 8\r\n" >>, StrBytes("<b>A</b>")),
    Resp(StatusOK, << >>, StrBytes("a&lt;b")),
    Resp(StatusOK, << "Content-Length: 0\r\n" >>, << >>),
    Resp(StatusMoved, << "Location: /x\r\n", "Content-Length: 0\r\n" >>, << >>),
    Resp(StatusMoved, << "Location: file:///f\r\n", "Content-Length: 0\r\n" >>, << >>),
    Resp(StatusFound, << "Location: data:text/plain,a://b\r\n" >>, << >>),
    Resp(StatusFound, << "Location: data:text/plain,hi\r\n" >>, << >>),
    Resp(StatusMoved, << "Location: view-source:file:///f\r\n" >>, << >>),
    Resp(StatusOK, << "Transfer-Encoding: chunked\r\n" >>, << 65 >>) }

\* the program starts with a locator string at hand, nothing parsed or loaded
InitLoad ==
  /\ arg \in LoadLocators
  /\ obj = << >>
  /\ socket_cache = EmptyDict
  /\ socks = << >>
  /\ pc = "idle"
  /\ self = NewURL
  /\ redirect_count = 0
  /\ s = 0
  /\ ret = NoResult
  /\ sent = 0
  /\ swallowed = {}
  /\ NoHop
  /\ NoCall

\* line 353, body = self.request(): request() starts on u, called by the calls
\* of stack
call_request(u, stack) ==
  /\ pc' = "request"
  /\ self' = u
  /\ redirect_count' = 0
  /\ s' = 0
  /\ ret' = NoResult
  /\ sent' = 0
  /\ swallowed' = {}
  /\ callers' = stack
  /\ ResetHop

\* lines 330-357, obj.load(): a data locator is decoded and shown, a file is
\* read and printed or shown; for an http locator request() is entered, and
\* load_return is the rest of load().  file is what reading the file yields.
load(file) ==
  /\ pc = "idle"
  /\ callers = << >>
  /\ obj /= << >>
  /\ ~Raised(obj[1])
  /\ IF obj[1].is_data
       THEN \E d \in { decode_data_url(obj[1].data_meta, obj[1].data_payload) } :
               /\ pc' = IF d.raised = "" THEN "loaded" ELSE "failed"
               /\ ret' = IF d.raised = "" THEN ret ELSE Failure(d.raised)
               /\ body' = d.text
               /\ stdout' = IF d.raised = "" THEN stdout \o show(d.text) ELSE stdout
               /\ UNCHANGED << self, redirect_count, s, sent, swallowed, callers,
                               hopVars >>
     ELSE IF obj[1].is_file
       THEN /\ pc' = IF file.raised = "" THEN "loaded" ELSE "failed"
            /\ ret' = IF file.raised = "" THEN ret ELSE Failure(file.raised)
            /\ body' = file.text
            /\ stdout' = IF file.raised /= "" THEN stdout
                         ELSE IF obj[1].is_view_source THEN stdout \o print(file.text)
                         ELSE stdout \o show(file.text)
            /\ UNCHANGED << self, redirect_count, s, sent, swallowed, callers,
                            hopVars >>
     ELSE /\ call_request(obj[1], << "load" >>)
          /\ UNCHANGED << body, stdout >>
  /\ UNCHANGED << urlVars, socket_cache, socks, argv, resolveVars >>

\* lines 353-357: request() returned to load(), the body is printed or shown
load_return ==
  /\ pc = "done"
  /\ callers /= << >>
  /\ callers[Len(callers)] = "load"
  /\ body' = ret.text
  /\ stdout' = IF obj[1].is_view_source THEN stdout \o print(ret.text)
               ELSE stdout \o show(ret.text)
  /\ callers' = SubSeq(callers, 1, Len(callers) - 1)
  /\ pc' = "loaded"
  /\ UNCHANGED << urlVars, socket_cache, socks, self, redirect_count, s, ret, sent,
                  swallowed, hopVars, argv, resolveVars >>

\* lines 369-380, the program run with sys.argv = av.  With an argument, line
\* 373 binds url to the string itself and line 374 calls load() on that str
\* object: AttributeError ends the program.  Without one, the banner is
\* printed and https://example.org/ is parsed and loaded.
main(av) ==
  /\ pc = "idle"
  /\ obj = << >>
  /\ argv = << >>
  /\ callers = << >>
  /\ argv' = av
  /\ IF Len(av) > 1
       THEN /\ pc' = "failed"
            /\ ret' = Failure("AttributeError")
            /\ UNCHANGED << urlVars, self, redirect_count, s, sent, swallowed,
                            callers, stdout, hopVars >>
       ELSE /\ stdout' = stdout \o print(StrBytes(Banner))
            /\ arg' = "https://example.org/"
            /\ obj' = << URL("https://example.org/") >>
            /\ call_request(URL("https://example.org/"), << "main", "load" >>)
  /\ UNCHANGED << socket_cache, socks, body, resolveVars >>

\* line 382: load() returned to the program, which closes the cached sockets
\* and ends
main_return(raising) ==
  /\ pc = "loaded"
  /\ callers = << "main" >>
  /\ \E c \in { close_all(socket_cache, socks, raising) } :
         /\ socket_cache' = c.cache
         /\ socks' = c.socks
  /\ swallowed' = raising
  /\ callers' = << >>
  /\ pc' = "exited"
  /\ UNCHANGED << urlVars, self, redirect_count, s, ret, sent, hopVars, argv,
                  body, stdout, resolveVars >>

NextLoad ==
  \/ URL_init
  \/ \E file \in FileReads : load(file)
  \/ \E p \in ProbeOutcomes, c \in BOOLEAN, e \in BOOLEAN : request_begin(p, c, e)
  \/ \E r \in LoadResponses, e \in BOOLEAN : request_exchange(r, e, MaxHops)
  \/ load_return
  \/ \E av \in { << "browser.py" >>, << "browser.py", arg >> } : main(av)
  \/ \E raising \in SUBSET DictValues(socket_cache) : main_return(raising)

\* a locator is parsed and loaded, or the program is run
SpecLoad == InitLoad /\ [][NextLoad]_vars

(***************************************************************************)
(* resolve_redirect_location alone, over base locators and locations       *)
(***************************************************************************)

\* http and https locator strings, the bases of a redirect
BaseLocators ==
  { "https://a.com/dir/page", "http://example.com:8080/path", "http://a",
    "http://a/d/p?q=/z", "http://a:-1/x", "https://a:08//", "http://:80/",
    "http://a?q=1", "https://b:443", "view-source:https://a:8/p/q",
    " http://a b/c ", "http://a/d/" }

\* values of a location header
Locations ==
  { "other", "/abs", "https://b.com/x", "", "../up", "?q=1", "//b/x",
    "/x?u=http://b/", "x y", ":8/", "#f", "data:,x", "file:///f",
    "view-source:x", "/" }

InitResolve ==
  /\ arg \in BaseLocators
  /\ obj = << >>
  /\ socket_cache = EmptyDict
  /\ socks = << >>
  /\ pc = "idle"
  /\ self = NewURL
  /\ redirect_count = 0
  /\ s = 0
  /\ ret = NoResult
  /\ sent = 0
  /\ swallowed = {}
  /\ NoHop
  /\ NoCall

\* redirect_url_str = obj.resolve_redirect_location(loc), on an object that has
\* a host, a port and a path
resolve_redirect_location_call(loc) ==
  /\ obj /= << >>
  /\ ~Raised(obj[1])
  /\ {"host", "port", "path"} \subseteq (obj[1].has \ obj[1].none)
  /\ redirect_url_str = << >>
  /\ location' = loc
  /\ redirect_url_str' = << resolve_redirect_location(obj[1], loc) >>
  /\ UNCHANGED << urlVars, socket_cache, socks, pc, self, redirect_count, s, ret,
                  sent, swallowed, hopVars, loadVars >>

NextResolve ==
  \/ URL_init
  \/ \E loc \in Locations : resolve_redirect_location_call(loc)

\* the constructor, then one redirect resolution against the object built
SpecResolve == InitResolve /\ [][NextResolve]_vars

(***************************************************************************)
(* Properties                                                              *)
(***************************************************************************)

\* a and the lower-case name t are the same up to the case of ASCII letters
SameName(a, t) ==
  /\ Len(a) = Len(t)
  /\ \A i \in 1..Len(a) :
        \/ CharAt(a, i) = CharAt(t, i)
        \/ \E j \in 1..26 : /\ CharAt("ABCDEFGHIJKLMNOPQRSTUVWXYZ", j) = CharAt(a, i)
                            /\ CharAt("abcdefghijklmnopqrstuvwxyz", j) = CharAt(t, i)

\* the response r has a header line whose name is t in some letter case
HasHeaderLine(r, t) ==
  \E i \in 2..Len(r.lines) :
     /\ Contains(r.lines[i], ":")
     /\ SameName(SplitFirst(r.lines[i], ":")[1], t)

\* r has a transfer-encoding or a content-encoding header line
HasEncodingHeader(r) ==
  HasHeaderLine(r, "transfer-encoding") \/ HasHeaderLine(r, "content-encoding")

\* In what follows h stands for ReadHead(r), the parsed head of the response r.

\* r has a status line and a header block that parse, and no encoding header
Usable(h, r) == h.ok /\ ~HasEncodingHeader(r)

\* the status code is in [300, 400)
Is3xx(h) == h.status_code >= 300 /\ h.status_code <= 399

\* the value of the content-length header, "" when there is none or an empty one
ContentLength(h) == HeaderGet(h.headers, "content-length")

\* r is a response request() returns the body of: usable, not a 3xx, its
\* content-length absent or a number
FinalResponse(h, r) ==
  /\ Usable(h, r)
  /\ ~Is3xx(h)
  /\ ContentLength(h) /= "" => ParseInt(ContentLength(h))[1]

\* r is a redirect request() follows from u: usable, a 3xx with a location that
\* resolves to a locator URL() accepts, its content-length absent or a number
FollowedRedirect(u, h, r) ==
  /\ Usable(h, r)
  /\ Is3xx(h)
  /\ HasHeaderLine(r, "location")
  /\ ContentLength(h) /= "" => ParseInt(ContentLength(h))[1]
  /\ ~Raised(URL(resolve_redirect_location(u, h.headers["location"])))

\* the first n bytes of stream, all of it when it is shorter
FirstBytes(stream, n) ==
  [ i \in 1..(IF n < Len(stream) THEN n ELSE Len(stream)) |-> stream[i] ]

\* one response of a fetch, as C1 sees it
C1_Response(h) ==
  /\ FinalResponse(h, response') =>
        /\ redirect_count <= MAX_REDIRECTS
        /\ pc' = "done"
        /\ body_bytes' = IF ContentLength(h) = "" THEN response'.stream
                         ELSE FirstBytes(response'.stream, ParseInt(ContentLength(h))[2])
        /\ ret' = Returned(Utf8Decode(body_bytes'))
  /\ FollowedRedirect(self, h, response') =>
        /\ pc' = "request"
        /\ redirect_count' = redirect_count + 1
        /\ ret' = NoResult

\* one step of a fetch, as C1 sees it
C1_Step ==
  /\ pc = "acquired" => \A h \in { ReadHead(response') } : C1_Response(h)
  /\ (pc = "request" /\ redirect_count <= MAX_REDIRECTS) =>
        ret'.error /= "TooManyRedirects"
  /\ (pc = "request" /\ redirect_count = MAX_REDIRECTS + 1) =>
        /\ pc' = "failed"
        /\ ret' = Failure("TooManyRedirects")
        /\ sent' = sent
        /\ socks' = socks
        /\ socket_cache' = socket_cache
  /\ redirect_count' <= MAX_REDIRECTS + 1

\* C1: in a fetch started with hop count 0, every redirect that is followed
\* raises the hop count by one; at any hop count up to 10 a final (non-redirect)
\* response ends the fetch with the decoded body of that response and the hop
\* check does not fail; the 11th followed redirect makes the next hop fail with
\* TooManyRedirects before a socket is acquired or a request sent, and no body
\* is returned.
C1_RedirectHopBound == [][C1_Step]_vars

\* C1: the fetch failed on the hop bound after 11 requests, each answered by a
\* redirect
C1_Witness ==
  /\ pc = "failed"
  /\ ret = Failure("TooManyRedirects")
  /\ redirect_count = MAX_REDIRECTS + 1
  /\ sent = MAX_REDIRECTS + 1

\* get_socket() as C2 sees it, and the response that follows
C2_Step ==
  LET key == CacheKey(self)
  IN  /\ (pc = "request" /\ key \in DOMAIN socket_cache /\ probe' = "nodata") =>
            /\ pc' = "acquired"
            /\ s' = socket_cache[key]
            /\ socks' = socks
            /\ socket_cache' = socket_cache
      /\ (pc = "request" /\ key \notin DOMAIN socket_cache /\ pc' = "acquired") =>
            /\ Len(socks') = Len(socks) + 1
            /\ SubSeq(socks', 1, Len(socks)) = socks
            /\ s' = Len(socks')
            /\ socks'[s'] = NewSocket(key)
            /\ DOMAIN socket_cache' = (DOMAIN socket_cache) \cup {key}
            /\ socket_cache'[key] = s'
            /\ \A k \in DOMAIN socket_cache : socket_cache'[k] = socket_cache[k]
      /\ (pc = "acquired" /\ ContentLength(ReadHead(response')) /= "") =>
            /\ socks' = socks
            /\ socket_cache' = socket_cache
            /\ socket_cache'[key] = s

\* C2: a response that carries a content-length leaves the pool and its
\* sockets as they are; a fetch whose key is cached and whose probe reports no
\* data opens no connection and uses the cached handle, the pool unchanged; a
\* fetch whose key is not cached opens exactly one connection and caches it
\* under its own key beside the entries of the other keys, which stay.
C2_ConnectionReuse == [][C2_Step]_vars

\* C2: two keys are cached, two connections were opened in all, and a later
\* fetch to the first key holds the first connection again
C2_Witness ==
  /\ pc = "acquired"
  /\ probe = "nodata"
  /\ Len(socks) = 2
  /\ Cardinality(DOMAIN socket_cache) = 2
  /\ s = 1
  /\ socks[1].closes = 0

\* get_socket() on a cached key whose probe reports a dead socket
C3_Step ==
  LET key == CacheKey(self)
  IN  (pc = "request" /\ key \in DOMAIN socket_cache /\ probe' \in {"closed", "error"}) =>
         LET old == socket_cache[key]
         IN  /\ socks'[old].closes = socks[old].closes + 1
             /\ \A i \in (1..Len(socks)) \ {old} : socks'[i] = socks[i]
             /\ pc' = "acquired" =>
                   /\ Len(socks') = Len(socks) + 1
                   /\ s' = Len(socks')
                   /\ socks'[s'] = NewSocket(key)
                   /\ socket_cache' = [ socket_cache EXCEPT ![key] = s' ]
                   /\ ret' = NoResult
             /\ pc' /= "acquired" =>
                   /\ ret' = Failure("OSError")
                   /\ Len(socks') = Len(socks)
                   /\ socket_cache' = DictDel(socket_cache, key)

\* C3: when the key is cached and the probe reports the peer closed the stream
\* or raises an error other than "no data", the old handle is closed (an error
\* its close() raises is swallowed) and removed from the pool, exactly one new
\* connection is created and cached under the same key, and the fetch goes on
\* with it, no error reaching the caller; the one error that can reach the
\* caller is that of a new connection that cannot be opened.
C3_StaleRecovery == [][C3_Step]_vars

\* C3: a fetch holds a fresh second socket after the probe found the first one
\* closed by the peer, the first one's close() having raised
C3_Witness ==
  /\ pc = "acquired"
  /\ probe = "closed"
  /\ swallowed = {1}
  /\ socks[1].closes = 1
  /\ s = 2
  /\ socket_cache[CacheKey(self)] = 2
  /\ ret = NoResult

\* the response read in this step is read to the end of the stream, and the
\* socket it came on is closed and gone from the pool
ReadToEndAndDiscarded ==
  /\ reads' = << -1 >>
  /\ body_bytes' = response'.stream
  /\ CacheKey(self) \notin DOMAIN socket_cache'
  /\ socks'[s].closes = socks[s].closes + 1

C4_Response(h) ==
  /\ (FinalResponse(h, response') /\ ContentLength(h) = "") =>
        /\ ReadToEndAndDiscarded
        /\ pc' = "done"
        /\ ret' = Returned(Utf8Decode(response'.stream))
        /\ \A k \in (DOMAIN socket_cache) \ {CacheKey(self)} :
              k \in DOMAIN socket_cache' /\ socket_cache'[k] = socket_cache[k]
  /\ (FollowedRedirect(self, h, response') /\ ContentLength(h) = "") =>
        /\ reads' = << >>
        /\ body_bytes' = << >>
        /\ socket_cache' = socket_cache
        /\ socks' = socks

C5_EncodingHeadersFatal ==
  [][ (pc = "acquired" /\ HasEncodingHeader(response')) =>
         /\ pc' = "failed"
         /\ ret'.kind = "error"
         /\ reads' = << >>
         /\ body_bytes' = << >>
         /\ redirect_count' = redirect_count
         /\ self' = self ]_vars

\* C5: a 301 with a location and a transfer-encoding header failed the fetch,
\* nothing read
C5_Witness ==
  /\ pc = "failed"
  /\ ret = Failure("AssertionError")
  /\ status_code = 301
  /\ HasHeaderLine(response, "location")
  /\ HasHeaderLine(response, "transfer-encoding")
  /\ reads = << >>

\* the fetch ends in this step with RedirectMissingLocation, nothing read
FailsMissingLocation ==
  /\ pc' = "failed"
  /\ ret' = Failure("RedirectMissingLocation")
  /\ reads' = << >>
  /\ body_bytes' = << >>
  /\ redirect_count' = redirect_count
  /\ self' = self
  /\ sent' = sent + 1

\* C6 as stated: every response whose status code is in [300, 400) and that
\* has no location header makes the fetch fail with RedirectMissingLocation,
\* no further request being sent and no body delivered.
C6_AsStated ==
  [][ pc = "acquired" =>
        \A h \in { ReadHead(response') } :
           (h.ok /\ Is3xx(h) /\ ~HasHeaderLine(response', "location"))
             => FailsMissingLocation ]_vars

\* C6 amended: every response whose status code is in [300, 400), that has no
\* location header and neither a transfer-encoding nor a content-encoding
\* header, makes the fetch fail with RedirectMissingLocation, no further
\* request being sent and no body delivered; with one of those two headers
\* the fetch fails on that header instead.
C6_MissingLocation ==
  [][ pc = "acquired" =>
        \A h \in { ReadHead(response') } :
           (h.ok /\ Is3xx(h) /\ ~HasHeaderLine(response', "location"))
             => IF HasEncodingHeader(response')
                  THEN pc' = "failed" /\ ret' = Failure("AssertionError")
                  ELSE FailsMissingLocation ]_vars

\* C6: a 304 without location failed the fetch after one request
C6_Witness ==
  /\ pc = "failed"
  /\ ret = Failure("RedirectMissingLocation")
  /\ status_code = 304
  /\ ~HasHeaderLine(response, "location")
  /\ sent = 1

\* C7: close_all_sockets, from any state of the pool, calls close() exactly
\* once on every handle cached at that moment and on no other, and leaves the
\* pool empty, whichever of the close() calls raise.
C7_Shutdown ==
  [][ pc' = "shutdown" =>
         /\ socket_cache' = EmptyDict
         /\ Len(socks') = Len(socks)
         /\ \A i \in 1..Len(socks) :
               socks'[i].closes =
                 socks[i].closes + (IF i \in DictValues(socket_cache) THEN 1 ELSE 0) ]_vars

\* C7: the pool held two handles, close() raised on the first, and both were
\* closed once and the pool emptied
C7_Witness ==
  /\ pc = "shutdown"
  /\ swallowed = {1}
  /\ Len(socks) = 2
  /\ socks[1].closes = 1
  /\ socks[2].closes = 1
  /\ socket_cache = EmptyDict

\* C8: the pool holds at most one handle per key, each the handle of a
\* connection opened for that key, and the handle cached under a key leaves the
\* pool only in a step that finds it dead by the probe, that reads a body of
\* unknown length on it, or that clears the pool.
C8_PoolInvariant ==
  [][ /\ \A k \in DOMAIN socket_cache' :
            /\ socket_cache'[k] \in 1..Len(socks')
            /\ socks'[socket_cache'[k]].key = k
      /\ \A k \in DOMAIN socket_cache :
            (k \notin DOMAIN socket_cache' \/ socket_cache'[k] /= socket_cache[k]) =>
               \/ pc = "request" /\ k = CacheKey(self) /\ probe' \in {"closed", "error"}
               \/ pc = "acquired" /\ k = CacheKey(self) /\ reads' = << -1 >>
               \/ pc' = "shutdown" ]_vars

\* C9: for a non-redirect response that passes the header checks and whose
\* content-length is N, read(N) is the one read made for the body, the body is
\* the first N bytes of what the stream holds, the fetch returns their UTF-8
\* decoding, and the handle stays in the pool under its key, not closed.
C9_ExactContentLength ==
  [][ pc = "acquired" =>
        \A h \in { ReadHead(response') } :
           (FinalResponse(h, response') /\ ContentLength(h) /= "") =>
              \A N \in { ParseInt(ContentLength(h))[2] } :
                 /\ reads' = << N >>
                 /\ body_bytes' = FirstBytes(response'.stream, N)
                 /\ pc' = "done"
                 /\ ret' = Returned(Utf8Decode(body_bytes'))
                 /\ socket_cache' = socket_cache
                 /\ socket_cache'[CacheKey(self)] = s
                 /\ socks' = socks
                 /\ socks'[s].closes = 0 ]_vars

\* C9: of the three bytes that followed "Content-Length: 2" two were read and
\* returned, the socket being still cached and open
C9_Witness ==
  /\ pc = "done"
  /\ reads = << 2 >>
  /\ response.stream = << 65, 66, 67 >>
  /\ body_bytes = << 65, 66 >>
  /\ ret = Returned(<< 65, 66 >>)
  /\ CacheKey(self) \in DOMAIN socket_cache
  /\ socket_cache[CacheKey(self)] = s
  /\ socks[s].closes = 0

\* v and x agree on the scheme, the variant flags and every optional attribute,
\* a missing attribute and None counting as the same absence
SameFields(v, x) ==
  /\ v.scheme = x.scheme
  /\ v.is_file = x.is_file
  /\ v.is_data = x.is_data
  /\ \A a \in OptionalAttrs : Getattr(v, a) = Getattr(x, a)

\* URL("view-source:" + whitespace + arg) carries the fields of parsed
\* (= URL(arg)) and has the view-source flag set
WrappedLike(parsed) ==
  \A w \in PrefixSpaces :
     LET v == URL("view-source:" \o w \o arg)
     IN  /\ ~Raised(v)
         /\ v.is_view_source
         /\ SameFields(v, parsed)

\* C10 as stated: for every locator string X that parses, "view-source:" +
\* optional whitespace + X parses to the same scheme, flags, host, port, path,
\* file path and data fields with the view-source flag set, and X alone parses
\* with the view-source flag unset.
C10_AsStated ==
  (obj /= << >> /\ ~Raised(obj[1])) =>
     /\ WrappedLike(obj[1])
     /\ ~obj[1].is_view_source

\* C10 amended: for every locator string X that parses, "view-source:" +
\* optional whitespace + X parses to the same scheme, flags, host, port, path,
\* file path and data fields with the view-source flag set; X alone parses
\* with the view-source flag unset unless X itself, trimmed, begins with
\* "view-source:", in which case its flag is set.
C10_ViewSourceWraps ==
  (obj /= << >> /\ ~Raised(obj[1])) =>
     /\ WrappedLike(obj[1])
     /\ obj[1].is_view_source <=> StartsWith(Strip(arg), "view-source:")

\* C10: https://example.org/ was parsed, and its wrapped form has port 443 and
\* the flag set
C10_Witness ==
  /\ arg = "https://example.org/"
  /\ obj /= << >>
  /\ ~Raised(obj[1])
  /\ obj[1].host = "example.org"
  /\ ~obj[1].is_view_source
  /\ URL("view-source: " \o arg).is_view_source
  /\ URL("view-source: " \o arg).port = 443

\* the locator string that remains when the surrounding whitespace and every
\* leading "view-source:" are taken off x
Unwrapped(x) ==
  LET inner[r \in STRING] ==
        LET t == Strip(r)
        IN  IF StartsWith(t, "view-source:")
              THEN inner[SubSeq(t, Len("view-source:") + 1, Len(t))]
              ELSE t
  IN  inner[x]

\* what follows the first "://" of x
AfterScheme(x) == SplitFirst(x, "://")[2]

\* the authority of x: what follows "://" up to the first "/"
Authority(x) == SplitFirst(AfterScheme(x), "/")[1]

\* what the input has after the authority
AfterAuthority(x) ==
  SubSeq(AfterScheme(x), Len(Authority(x)) + 1, Len(AfterScheme(x)))

\* C11: for every successfully parsed http/https locator, the port is 80 for
\* http and 443 for https unless the authority contains an explicit ":port",
\* in which case the port is that integer and the host excludes it; the path
\* always begins with "/", and is exactly "/" when the input has nothing after
\* the authority.
C11_PortAndPath ==
  (obj /= << >> /\ ~Raised(obj[1]) /\ obj[1].scheme \in {"http", "https"}) =>
     LET u    == obj[1]
         x    == Unwrapped(arg)
         auth == Authority(x)
         hp   == SplitFirst(auth, ":")
     IN  /\ ~Contains(auth, ":") =>
               /\ u.port = (IF u.scheme = "http" THEN 80 ELSE 443)
               /\ u.host = auth
         /\ Contains(auth, ":") =>
               /\ ParseInt(hp[2]) = << TRUE, u.port >>
               /\ u.host = hp[1]
               /\ ~Contains(u.host, ":")
         /\ StartsWith(u.path, "/")
         /\ AfterAuthority(x) = "" => u.path = "/"

\* C11: https://b:443 and https://example.org/ differ in how the port came
\* about; here http://example.com:8080/path was parsed to host example.com,
\* port 8080, path /path, and https://example.org/ parses to port 443
C11_Witness ==
  /\ arg = "http://example.com:8080/path"
  /\ obj /= << >>
  /\ ~Raised(obj[1])
  /\ obj[1].host = "example.com"
  /\ obj[1].port = 8080
  /\ obj[1].path = "/path"
  /\ URL("https://example.org/").port = 443
  /\ URL("http://a").path = "/"

\* C12: parsing a string that (once trimmed, as the parse begins by doing)
\* contains "://", does not start with "view-source:" or "data:", and whose
\* scheme token is none of file, http, https fails with an error raised by
\* the constructor itself: no locator object reaches the caller.
C12_UnknownSchemeFails ==
  obj /= << >> =>
     LET x == Strip(arg)
     IN  ( /\ Contains(x, "://")
           /\ ~StartsWith(x, "view-source:")
           /\ ~StartsWith(x, "data:")
           /\ SplitFirst(x, "://")[1] \notin {"file", "http", "https"} )
         => ( /\ Raised(obj[1])
              /\ obj[1] = Raise("AssertionError")
              /\ socks = << >>
              /\ pc = "idle" )

\* C12: ftp://a/ was handed to the constructor, which raised
C12_Witness ==
  /\ arg = "ftp://a/"
  /\ SplitFirst(Strip(arg), "://")[1] = "ftp"
  /\ obj = << Raise("AssertionError") >>

\* the base path with everything from its last "/" removed (a path without a
\* "/" is kept whole)
UpToLastSlash(path) ==
  IF \E k \in 1..Len(path) : CharAt(path, k) = "/"
    THEN LET k == CHOOSE j \in 1..Len(path) :
                     /\ CharAt(path, j) = "/"
                     /\ \A m \in (j + 1)..Len(path) : CharAt(path, m) /= "/"
         IN  SubSeq(path, 1, k - 1)
    ELSE path

\* "{scheme}://{host}:{port}" of a base locator
Origin(u) == u.scheme \o "://" \o u.host \o ":" \o IntToStr(u.port)

\* C13: redirect resolution against an Http base locator returns a location
\* containing "://" unchanged, "{scheme}://{host}:{port}{location}" for a
\* location that starts with "/", and for any other location
\* "{scheme}://{host}:{port}{base path up to its last "/"}/{location}"; in the
\* two non-absolute cases the result parses again to the scheme, host and port
\* of the base.
C13_RedirectResolution ==
  redirect_url_str /= << >> =>
     LET u == obj[1]
         r == redirect_url_str[1]
         p == URL(r)
     IN  /\ Contains(location, "://") => r = location
         /\ (~Contains(location, "://") /\ StartsWith(location, "/")) =>
               r = Origin(u) \o location
         /\ (~Contains(location, "://") /\ ~StartsWith(location, "/")) =>
               r = Origin(u) \o UpToLastSlash(u.path) \o "/" \o location
         /\ ~Contains(location, "://") =>
               /\ ~Raised(p)
               /\ p.scheme = u.scheme
               /\ p.host = u.host
               /\ p.port = u.port

\* C13: "other" was resolved against https://a.com/dir/page, and "/abs" and
\* "https://b.com/x" resolve against it as the specification's examples say
C13_Witness ==
  /\ arg = "https://a.com/dir/page"
  /\ location = "other"
  /\ redirect_url_str = << "https://a.com:443/dir/other" >>
  /\ resolve_redirect_location(obj[1], "/abs") = "https://a.com:443/abs"
  /\ resolve_redirect_location(obj[1], "https://b.com/x") = "https://b.com/x"

\* load() ran on a data locator: obj is the locator, body what was decoded
DataLoaded ==
  /\ obj /= << >>
  /\ ~Raised(obj[1])
  /\ obj[1].is_data
  /\ pc \in {"loaded", "failed"}

\* text is a sequence of code points
IsText(text) ==
  /\ DOMAIN text = 1..Len(text)
  /\ \A i \in 1..Len(text) : text[i] \in 0..1114111

\* some ";"-separated component of meta after the first is t, up to the case of
\* ASCII letters
HasComponent(meta, t) ==
  \E i \in 2..Len(SplitAll(meta, ";")) : SameName(SplitAll(meta, ";")[i], t)

\* the charset the metadata names, "" when it names none: the value of the
\* last component after the first that begins with "charset="
NamedCharset(meta) ==
  LET parts == SplitAll(meta, ";")
      named == { i \in 2..Len(parts) :
                   /\ Len(parts[i]) >= Len("charset=")
                   /\ SameName(SubSeq(parts[i], 1, Len("charset=")), "charset=") }
  IN  IF named = {} THEN ""
      ELSE SubSeq(parts[MaxOf(named)], Len("charset=") + 1, Len(parts[MaxOf(named)]))

\* the text of raw bytes along the fallback chain: an explicit charset decodes
\* with replacement, an unsupported one falls back to UTF-8 with replacement;
\* without a charset strict UTF-8, then Latin-1
ChainText(charset, raw) ==
  IF charset = ""
    THEN IF Utf8Malformed(raw) THEN Latin1Decode(raw) ELSE Utf8Decode(raw)
  ELSE IF CodecOf(charset) = "" THEN Utf8Decode(raw)
  ELSE IF CodecOf(charset) = "latin-1" THEN Latin1Decode(raw)
  ELSE IF CodecOf(charset) = "ascii" THEN AsciiDecode(raw)
  ELSE Utf8Decode(raw)

\* C14: the inline-data decoder is total: for every meta and payload of a
\* parsed Data locator decode returns text and never raises; a base64 payload
\* that does not decode is taken as the bytes of its characters, an
\* unsupported charset falls back to UTF-8 with replacement, and without a
\* charset bytes that are not UTF-8 are read as Latin-1.
C14_DecoderTotal ==
  DataLoaded =>
     LET meta    == obj[1].data_meta
         payload == obj[1].data_payload
         b64     == HasComponent(meta, "base64")
         raw     == IF b64 /\ b64decode(payload).ok THEN b64decode(payload).bytes
                    ELSE IF b64 THEN StrBytes(payload)
                    ELSE unquote_to_bytes(payload)
     IN  /\ pc = "loaded"
         /\ ret = NoResult
         /\ IsText(body)
         /\ body = ChainText(NamedCharset(meta), raw)

\* C14: a base64 payload that ends inside a group of four, under a charset no
\* codec has, was decoded: both fallbacks were taken and the text is the
\* payload's own characters
C14_Witness ==
  /\ arg = "data:;base64;charset=bogus,SGk"
  /\ DataLoaded
  /\ pc = "loaded"
  /\ ~b64decode(obj[1].data_payload).ok
  /\ CodecOf(NamedCharset(obj[1].data_meta)) = ""
  /\ body = StrBytes("SGk")

\* C15: the payload is base64-decoded if and only if some ";"-separated
\* component of the metadata after the first equals "base64" up to case (the
\* first component is never inspected); otherwise it is percent-decoded, each
\* %XX becoming one byte and every other character kept literally, so a
\* payload without "%" decodes to its own characters, markup included.
C15_DecoderSelection ==
  DataLoaded =>
     LET meta    == obj[1].data_meta
         payload == obj[1].data_payload
         charset == NamedCharset(meta)
     IN  /\ HasComponent(meta, "base64") =>
               body = ChainText(charset, IF b64decode(payload).ok
                                           THEN b64decode(payload).bytes
                                           ELSE StrBytes(payload))
         /\ ~HasComponent(meta, "base64") =>
               /\ body = ChainText(charset, unquote_to_bytes(payload))
               /\ ~Contains(payload, "%") => body = StrBytes(payload)

\* C15: SGk= under text/html;BASE64 was decoded to "Hi"; under the metadata
\* "base64" alone the same payload is percent-decoded, and markup survives
C15_Witness ==
  /\ arg = "data:text/html;BASE64,SGk="
  /\ DataLoaded
  /\ body = StrBytes("Hi")
  /\ decode_data_url("base64", "SGk=").text = StrBytes("SGk=")
  /\ decode_data_url("text/plain", "Hello%20world!").text = StrBytes("Hello world!")
  /\ decode_data_url("text/html", "<b>hi</b>").text = StrBytes("<b>hi</b>")

\* C16: for every locator carrying the view-source flag (Http, File or Data
\* inner locator) load writes the raw text to standard output, not passed
\* through the tag-stripping renderer; without the flag the text is passed
\* through the renderer.  (The raw text counts as written with or without the
\* newline print() adds.)
C16_ViewSourceRaw ==
  (pc = "loaded" /\ callers = << >> /\ argv = << >>) =>
     /\ obj[1].is_view_source => stdout \in { body, body \o << 10 >> }
     /\ ~obj[1].is_view_source => stdout = show(body)

\* C17: when the program is run with one locator argument, it parses that
\* argument into a locator, loads it, and writes the resulting text to
\* standard output (for a data locator: the decoded text, rendered).
C17_CommandSurface ==
  (Len(argv) = 2 /\ ~Raised(URL(argv[2]))) =>
     /\ obj = << URL(argv[2]) >>
     /\ ret /= Failure("AttributeError")
     /\ URL(argv[2]).is_data =>
           stdout = show(decode_data_url(URL(argv[2]).data_meta,
                                         URL(argv[2]).data_payload).text)

\* the lines of a request, each followed by CRLF
RequestOf(lines) ==
  LET text[i \in 0..Len(lines)] ==
        IF i = 0 THEN "" ELSE text[i - 1] \o lines[i] \o "\r\n"
  IN  text[Len(lines)]

\* C18, one step: a hop that holds a handle writes one request and reads the
\* response in the same step of request(); the request is exactly the lines
\* "GET {path} HTTP/1.1", "Host: {host}", "Connection: keep-alive",
\* "User-Agent: user" and an empty line, each ended by CRLF, with the path and
\* the host of the hop's locator, the Host value holding no port.  No other
\* step writes a request.
C18_Step ==
  /\ pc = "acquired" =>
        /\ request' = RequestOf(<< "GET " \o self.path \o " HTTP/1.1",
                                   "Host: " \o self.host,
                                   "Connection: keep-alive",
                                   "User-Agent: user",
                                   "" >>)
        /\ ~Contains(self.host, ":")
        /\ sent' = sent + 1
        /\ sent = redirect_count
        /\ response' /= NoResponse
  /\ pc /= "acquired" =>
        /\ sent' = sent \/ sent' = 0
        /\ request' = request \/ request' = ""

\* C18: on every hop the engine writes exactly one request to the acquired
\* handle, of exactly the five lines above, for the current hop's locator.
C18_RequestFormat == [][C18_Step]_vars

\* C18: the second hop of a fetch that was redirected from host a to host b
\* wrote its request, the second of the fetch, to host b
C18_Witness ==
  /\ sent = 2
  /\ redirect_count = 1
  /\ self.host = "b"
  /\ request = "GET / HTTP/1.1\r\nHost: b\r\nConnection: keep-alive\r\nUser-Agent: user\r\n\r\n"

\* text.encode("utf-8") for code points below 65536
Utf8Encode(text) ==
  LET enc[i \in 0..Len(text)] ==
        IF i = 0 THEN << >>
        ELSE LET c == text[i]
             IN  IF c < 128 THEN Append(enc[i - 1], c)
                 ELSE IF c < 2048
                   THEN enc[i - 1] \o << 192 + (c \div 64), 128 + (c % 64) >>
                 ELSE enc[i - 1] \o << 224 + (c \div 4096), 128 + ((c \div 64) % 64),
                                       128 + (c % 64) >>
  IN  enc[Len(text)]

\* the codec the decoder decodes raw with: the named one, UTF-8 when the name
\* has no codec; without a name UTF-8, or Latin-1 for bytes that are not UTF-8
CodecUsed(charset, raw) ==
  IF charset = "" THEN (IF Utf8Malformed(raw) THEN "latin-1" ELSE "utf-8")
  ELSE IF CodecOf(charset) = "" THEN "utf-8"
  ELSE CodecOf(charset)

\* text encoded with a codec: << TRUE, bytes >>, or << FALSE, << >> >> where the
\* codec has no byte for a code point of the text
Encode(codec, text) ==
  IF codec = "utf-8" THEN << TRUE, Utf8Encode(text) >>
  ELSE IF \A i \in 1..Len(text) : text[i] < (IF codec = "ascii" THEN 128 ELSE 256)
    THEN << TRUE, text >>
  ELSE << FALSE, << >> >>

\* raw is a valid encoding in the codec
ValidIn(codec, raw) ==
  IF codec = "utf-8" THEN ~Utf8Malformed(raw)
  ELSE IF codec = "ascii" THEN \A i \in 1..Len(raw) : raw[i] < 128
  ELSE TRUE

\* C19 as stated: for every percent-decodable payload with no base64 flag,
\* decoding the payload and re-encoding the resulting text with the same
\* charset reproduces the payload's bytes (those its percent-encoding denotes).
C19_AsStated ==
  (DataLoaded /\ ~HasComponent(obj[1].data_meta, "base64")) =>
     LET raw == unquote_to_bytes(obj[1].data_payload)
     IN  Encode(CodecUsed(NamedCharset(obj[1].data_meta), raw), body) = << TRUE, raw >>

\* C19 amended: for every percent-decodable payload with no base64 flag whose
\* percent-decoded bytes are valid in the charset they are decoded with
\* (UTF-8, Latin-1 or ASCII), decoding the payload and re-encoding the
\* resulting text with that charset reproduces those bytes.
C19_RoundTrip ==
  (DataLoaded /\ ~HasComponent(obj[1].data_meta, "base64")) =>
     LET raw   == unquote_to_bytes(obj[1].data_payload)
         codec == CodecUsed(NamedCharset(obj[1].data_meta), raw)
     IN  ValidIn(codec, raw) => Encode(codec, body) = << TRUE, raw >>

\* C19: %C3%A9 under charset=utf-8 was decoded to the one code point 233,
\* which encodes back to the two bytes of the payload
C19_Witness ==
  /\ arg = "data:text/plain;charset=utf-8,%C3%A9"
  /\ DataLoaded
  /\ body = << 233 >>
  /\ unquote_to_bytes(obj[1].data_payload) = << 195, 169 >>
  /\ Utf8Encode(body) = << 195, 169 >>

\* C20, one step: a fetch that holds a handle and aborts with an error on the
\* response (malformed status line or header, forbidden encoding header,
\* redirect without location) leaves the handle closed and the pool without
\* an entry for its key.
C20_Step ==
  (pc = "acquired" /\ pc' = "failed") =>
     /\ ret'.kind = "error"
     /\ CacheKey(self) \notin DOMAIN socket_cache'
     /\ socks'[s].closes >= 1

\* C20: when a fetch aborts with an error after a handle was acquired, the
\* connection for that key is closed and its entry removed from the pool
\* before the error reaches the caller.
C20_DiscardOnError == [][C20_Step]_vars

\* what is left of a response body after the read() calls rd were made on it
Remainder(stream, rd) ==
  LET left[i \in 0..Len(rd)] ==
        IF i = 0 THEN stream
        ELSE LET got == Len(ReadBytes(left[i - 1], rd[i]))
             IN  SubSeq(left[i - 1], got + 1, Len(left[i - 1]))
  IN  left[Len(rd)]

\* a redirect response with a location and a content-length of N, as C21 sees it
C21_Response(h) ==
  ( /\ Usable(h, response')
    /\ Is3xx(h)
    /\ HasHeaderLine(response', "location")
    /\ ContentLength(h) /= ""
    /\ ParseInt(ContentLength(h))[1] ) =>
      \A N \in { ParseInt(ContentLength(h))[2] } :
         /\ reads' = << N >>
         /\ body_bytes' = << >>
         /\ ret'.kind /= "body"
         /\ request' = RequestText(self)
         /\ sent' = sent + 1
         /\ socket_cache' = socket_cache
         /\ socks' = socks
         /\ socket_cache'[CacheKey(self)] = s
         /\ Len(response'.stream) = N => Remainder(response'.stream, reads') = << >>
         /\ IF FollowedRedirect(self, h, response')
              THEN /\ pc' = "request"
                   /\ self' = URL(resolve_redirect_location(self, h.headers["location"]))
                   /\ redirect_count' = redirect_count + 1
              ELSE /\ pc' = "failed"
                   /\ ret'.kind = "error"

\* the hop that follows a drained redirect and goes to the key of the handle
\* the redirect was read on
C21_NextHop ==
  ( /\ pc = "request"
    /\ redirect_count > 0
    /\ redirect_count <= MAX_REDIRECTS
    /\ HeaderGet(response_headers, "content-length") /= ""
    /\ CacheKey(self) = socks[s].key
    /\ probe' = "nodata" ) =>
      /\ pc' = "acquired"
      /\ s' = s
      /\ socks' = socks
      /\ socket_cache' = socket_cache
      /\ sent' = sent
      /\ Len(reads) = 1
      /\ Len(response.stream) = reads[1] => Remainder(response.stream, reads) = << >>

\* one step of a fetch, as C21 sees it
C21_Step ==
  /\ pc = "acquired" => \A h \in { ReadHead(response') } : C21_Response(h)
  /\ C21_NextHop

\* C21: of a redirect response that carries a content-length of N, read(N) is
\* the one read made on the body and what it returns is dropped, before the
\* location is resolved (a location that does not parse fails the fetch after
\* the read) and within the hop, whose request is the only one written so far;
\* the handle stays cached and open, nothing of a body of N bytes is left
\* unread on it, and a next hop to the same key whose probe reports no data
\* takes that handle again, no connection opened, before it writes its request.
C21_DrainBeforeNextHop == [][C21_Step]_vars

\* C21: after a 301 to /x whose two body bytes were drained, the next hop holds
\* the handle of the first hop again and has not yet written its request
C21_Witness ==
  /\ pc = "acquired"
  /\ redirect_count = 1
  /\ status_code = 301
  /\ reads = << 2 >>
  /\ response.stream = << 65, 66 >>
  /\ Remainder(response.stream, reads) = << >>
  /\ probe = "nodata"
  /\ self.path = "/x"
  /\ s = 1
  /\ Len(socks) = 1
  /\ socks[1].closes = 0
  /\ sent = 1

\* a fetch is in progress
FetchRunning == pc \in {"request", "acquired"}

\* the fetch has returned or raised
FetchEnded == pc \in {"done", "failed"}

\* how far the fetch in progress has got: two per hop begun, one more once the
\* hop holds its socket
FetchProgress == 2 * redirect_count + (IF pc = "acquired" THEN 1 ELSE 0)

\* the counts of a fetch, in every state
C22_Bound ==
  /\ sent <= MAX_REDIRECTS + 1
  /\ redirect_count <= MAX_REDIRECTS + 1
  /\ pc = "request" => sent = redirect_count
  /\ pc = "acquired" => (redirect_count <= MAX_REDIRECTS /\ sent = redirect_count)

\* one step of a fetch, as C22 sees it
C22_Step ==
  /\ (pc = "request" /\ redirect_count <= MAX_REDIRECTS) =>
        /\ sent' = sent
        /\ pc' \in {"acquired", "failed"}
        /\ Len(socks') <= Len(socks) + 1
  /\ (pc = "request" /\ redirect_count > MAX_REDIRECTS) =>
        /\ pc' = "failed"
        /\ ret' = Failure("TooManyRedirects")
        /\ socks' = socks
        /\ socket_cache' = socket_cache
        /\ probe' = probe
        /\ s' = 0
        /\ sent' = sent
        /\ request' = request
  /\ pc = "acquired" =>
        /\ sent' = sent + 1
        /\ Len(socks') = Len(socks)
        /\ redirect_count' \in {redirect_count, redirect_count + 1}
  /\ FetchRunning => (FetchEnded' \/ FetchProgress' > FetchProgress)

\* C22: every fetch started at hop count 0 ends, by a body or an error,
\* whatever the servers answer; the hop at count n (0 through 10) is the
\* (n+1)-th to ask for a socket and to write a request, one of each, so there
\* are at most 11 of either; at hop count 11 request() raises before
\* get_socket() is called: no probe, no connection opened, no request written.
C22_BoundedFetch ==
  /\ []C22_Bound
  /\ [][C22_Step]_vars
  /\ FetchRunning ~> FetchEnded

\* C22: eleven hops each wrote one request and were redirected, and the twelfth
\* call raised on the hop bound, holding no socket
C22_Witness ==
  /\ pc = "failed"
  /\ ret.error = "TooManyRedirects"
  /\ sent = MAX_REDIRECTS + 1
  /\ redirect_count = MAX_REDIRECTS + 1
  /\ s = 0
  /\ IsRedirectStatus(status_code)
  /\ Len(socks) >= 1

\* C23, one step: get_socket() raising on connect() or on the handshake
C23_Step ==
  (pc = "request" /\ ret'.error = "OSError") =>
     /\ pc' = "failed"
     /\ ret'.kind = "error"
     /\ ret'.text = << >>
     /\ Len(socks') = Len(socks)
     /\ CacheKey(self) \notin DOMAIN socket_cache'
     /\ DOMAIN socket_cache' = (DOMAIN socket_cache) \ {CacheKey(self)}
     /\ \A k \in DOMAIN socket_cache' : socket_cache'[k] = socket_cache[k]

\* C23: when connect() or the TLS handshake fails in get_socket(), the error
\* reaches the caller of the fetch, no handle is added, the pool has no entry
\* for the key of the request afterwards and the entries of the other keys are
\* as they were.
C23_FailedConnect == [][C23_Step]_vars

\* handle i is the entry of the pool for the key it was opened for
Pooled(i) ==
  /\ socks[i].key \in DOMAIN socket_cache
  /\ socket_cache[socks[i].key] = i

\* C24: in every reachable state, every handle that was ever stored in the
\* pool is still the entry of the pool for its key or has had close() called
\* on it; so a handle that get_socket() replaces under its key was closed.
C24_NoHandleLeak ==
  \A i \in 1..Len(socks) : Pooled(i) \/ socks[i].closes >= 1

\* get_socket() on a cached key, as C25 sees it, and the request that follows
C25_Step ==
  LET key == CacheKey(self)
  IN  /\ ( /\ pc = "request"
           /\ pc' = "acquired"
           /\ key \in DOMAIN socket_cache
           /\ s' = socket_cache[key] ) => probe' = "nodata"
      /\ ( /\ pc = "request"
           /\ redirect_count <= MAX_REDIRECTS
           /\ key \in DOMAIN socket_cache
           /\ probe' = "data" ) =>
             /\ s' /= socket_cache[key]
             /\ sent' = sent
             /\ pc' = "acquired" =>
                   /\ Len(socks') = Len(socks) + 1
                   /\ s' = Len(socks')
                   /\ socks'[s'] = NewSocket(key)
                   /\ socket_cache'[key] = s'
             /\ pc' /= "acquired" =>
                   /\ pc' = "failed"
                   /\ Len(socks') = Len(socks)
      /\ pc = "acquired" =>
             /\ s' = s
             /\ sent' = sent + 1
             /\ request' = RequestText(self)

\* C25: get_socket() returns the handle cached under the key only when the
\* probe reported that no data is available; when the probe finds unread data
\* pending on the cached handle, that handle is not returned: a connection is
\* created and the request is written on it, or, when it cannot be created,
\* no request is written at all.
C25_ReuseOnlyWhenIdle == [][C25_Step]_vars

\* C25: the probe found data pending on the first handle, and the request was
\* written on a second connection, which answered with a body
C25_Witness ==
  /\ pc = "done"
  /\ probe = "data"
  /\ Len(socks) = 2
  /\ socks[1].key = CacheKey(self)
  /\ s = 2
  /\ CacheKey(self) \in DOMAIN socket_cache
  /\ socket_cache[CacheKey(self)] = 2
  /\ sent = 1
  /\ request = RequestText(self)

\* u is a locator of the file or of the data variant, wrapped or not
NonHttp(u) == u.is_file \/ u.is_data

\* a redirect whose location resolves to a non-Http locator, as C26 sees it
C26_Response(h) ==
  ( /\ Usable(h, response')
    /\ Is3xx(h)
    /\ HasHeaderLine(response', "location")
    /\ ContentLength(h) /= "" => ParseInt(ContentLength(h))[1] ) =>
      \A target \in { URL(resolve_redirect_location(self, h.headers["location"])) } :
         (~Raised(target) /\ NonHttp(target)) =>
            /\ pc' = "request"
            /\ self' = target
            /\ ret' = NoResult
            /\ body' = body
            /\ stdout' = stdout

\* one step of the program, as C26 sees it
C26_Step ==
  /\ pc \in {"request", "acquired"} => (body' = body /\ stdout' = stdout)
  /\ pc = "acquired" => \A h \in { ReadHead(response') } : C26_Response(h)
  /\ (pc = "request" /\ NonHttp(self)) =>
        /\ pc' = "failed"
        /\ ret'.kind = "error"
        /\ ret'.text = << >>
        /\ sent' = sent
        /\ socks' = socks
        /\ socket_cache' = socket_cache
  /\ (pc = "failed" /\ NonHttp(self)) => (body' = body /\ stdout' = stdout)

\* C26: a redirect whose location resolves to a string that parses as a file
\* or a data locator makes request() recurse on that locator, and the call
\* fails in get_socket() (or on the hop bound) before anything is opened or
\* written: no file is read and no inline data decoded, within the fetch or
\* after it, the fetch returns no text and load() prints nothing.
C26_NoLocalContent == [][C26_Step]_vars

\* C26: load() of an http locator was redirected to file:///f and the fetch
\* failed on the file locator, nothing read and nothing printed
C26_Witness ==
  /\ pc = "failed"
  /\ callers = << "load" >>
  /\ redirect_count = 1
  /\ self.is_file
  /\ self.file_path = "/f"
  /\ ret = Failure("AttributeError")
  /\ sent = 1
  /\ body = << >>
  /\ stdout = << >>

=============================================================================
